---- MODULE Spec2Model ----
(***************************************************************************)
(* Model of the orchestration loop of src/agent_core/agent.py              *)
(* (Agent.__init__, analyze, observe, run_agent, _should_replan) together  *)
(* with the collaborators it calls: Planner.create_recovery_plan           *)
(* (src/agent_core/planner.py) and Executor.execute_step                   *)
(* (src/agent_core/executor.py).                                           *)
(*                                                                         *)
(* One Agent object is modelled.  run_agent is an async generator: each    *)
(* action below is the code that runs from one resumption of the generator *)
(* to its next yield.  The awaits on create_plan and execute_step touch no *)
(* Agent state before they return and are part of the action that uses     *)
(* their result; the await on create_recovery_plan, reached after observe  *)
(* has recorded the error, ends an action of its own.                      *)
(*                                                                         *)
(* Beside the Agent stand the protocol engine of                           *)
(* src/agent_core/agui/protocol.py (AGUIProtocol.add_middleware,           *)
(* emit_event, _apply_state_delta) with the middlewares of                 *)
(* src/agent-core/agui/middleware.py, and the three transports of          *)
(* src/agent-core/agui/transport.py.  A call of emit_event or of a         *)
(* transport operation is one action: the middlewares of the repository    *)
(* do not suspend, and a transport operation touches its own object only.  *)
(*                                                                         *)
(* The wire encoding is that of the two EventEncoder classes               *)
(* (src/agent_core/encoder.py, src/agent_core/agui/encoder.py) and of the  *)
(* decoders CustomEvent.from_dict and receive_event.  The process          *)
(* execution is that of Executor of src/agent_core/executor.py             *)
(* (execute_step, execute_script, _managed_process, cleanup) and of        *)
(* Executor.execute_code of src/agent-core/executor.py: a call is cut at   *)
(* its awaits on the child, and the child, the clock and the cancellation  *)
(* of a task act between them.  execute_code writes its code file into     *)
(* RuntimeManager.temp_dir and unlinks it in its finally clause;           *)
(* RuntimeManager.detect_runtime reads a code text that is put together    *)
(* from pieces, each with the strings it begins with, ends with and        *)
(* contains.                                                               *)
(*                                                                         *)
(* The WebSocket endpoint of src/agent-core/agui/server.py is one call of  *)
(* websocket_endpoint per socket, cut at its awaits on receive_json and on *)
(* each send_json of ConnectionManager.broadcast.                          *)
(***************************************************************************)
EXTENDS Integers, Sequences, FiniteSets, TLC

\* ---------------------------------------------------------------- bounds
\* Plan steps handed to the Agent over all its runs, and the runs started on it.
MaxSteps == 3
NumRuns == 2
\* A run whose steps all terminate replans at most twice per plan step (the
\* step itself and its one fallback); one more than that is only reached by
\* a run that keeps replanning.
MaxReplan == 2 * MaxSteps + 1
\* Middlewares registered one by one with an engine, and the emit_event
\* calls made on it.
MaxMiddlewares == 2
MaxEmits == 2

\* Calls of the executors that are in progress together.
NumTasks == 2
\* Pieces a code text handed to detect_runtime is put together from.
MaxPieces == 2
\* Sockets that connect to the WebSocket endpoint of the server.
NumSockets == 3

Runs == 1..NumRuns

\* ---------------------------------------------------------------- inputs
\* The shapes of PlanStep a plan is drawn from.  args_ok: params can be
\* serialised by to_json.  exit_ok: the script exists and exits with 0.
\* fallback_actions: the dicts read by create_recovery_plan (each carries
\* the keys action, tool, params, description).
NoFallback == <<>>

StepKinds ==
  { [action |-> "execute_script", args_ok |-> TRUE,  exit_ok |-> TRUE,
     fallback_actions |-> NoFallback],
    [action |-> "execute_script", args_ok |-> TRUE,  exit_ok |-> FALSE,
     fallback_actions |-> NoFallback],
    [action |-> "create",         args_ok |-> FALSE, exit_ok |-> FALSE,
     fallback_actions |-> NoFallback],
    [action |-> "process",        args_ok |-> FALSE, exit_ok |-> FALSE,
     fallback_actions |-> << [action |-> "execute_script", args_ok |-> FALSE,
                              exit_ok |-> TRUE] >>] }

Plans == UNION { [1..n -> StepKinds] : n \in 0..MaxSteps }

\* RunAgentInput together with what the planner answers for it.
Inputs ==
  { [has_messages |-> TRUE, planner_raises |-> FALSE, plan |-> p] : p \in Plans }
  \cup { [has_messages |-> FALSE, planner_raises |-> FALSE, plan |-> <<>>],
         [has_messages |-> TRUE,  planner_raises |-> TRUE,  plan |-> <<>>] }

\* Inputs of the runs that overlap on one Agent object.
ConcInputs ==
  { i \in Inputs : Len(i.plan) <= 1 /\ \A k \in 1..Len(i.plan) :
                      i.plan[k].fallback_actions = NoFallback }

NoInput == [has_messages |-> FALSE, planner_raises |-> FALSE, plan |-> <<>>]
NoStep == [id |-> <<0, 0>>, origin |-> <<0, 0>>, action |-> "none",
           args_ok |-> TRUE, exit_ok |-> FALSE, fallback_actions |-> NoFallback]
NoResult == [kind |-> "none", success |-> FALSE, text |-> "None"]

\* ---------------------------------------------------------------- state
VARIABLES
  state,        \* Agent.state: task_stack, execution_history, current_context, reflexive_state
  memory_hooks, \* the MemoryManager of this Agent has store_analysis / update_state
  has_to_json,  \* the planner's PlanStep class has a to_json method
  pc,           \* per run: where the generator is suspended
  input,        \* per run: the RunAgentInput it was called with
  events,       \* per run: the events yielded so far
  step,         \* per run: local variable step
  result,       \* per run: local variable result
  tool_call_id, \* per run: local variable tool_call_id
  nsteps,       \* per run: PlanStep objects created for it so far
  replans,      \* per run: recovery plans requested so far
  middlewares,       \* AGUIProtocol.middlewares: the middleware objects, in order
  protocol_state,    \* AGUIProtocol.state
  protocol_messages, \* AGUIProtocol.messages
  emits,             \* emit_event calls made so far
  call,              \* the last emit_event call: its argument and its outcome
  transport,         \* per transport object: its session and its stream
  built,             \* the last event construction: its arguments and its outcome
  op,                \* the last transport operation: its arguments and its outcome
  wire,              \* the last call of the codec: its arguments and its outcome
  tasks,             \* per task: the execute_step or execute_code call it runs
  children,          \* per task: the child process its call spawned
  current_processes, \* Executor.current_processes
  temp_dir,          \* the code files in RuntimeManager.temp_dir
  detected,          \* the last call of detect_runtime: its argument and its answer
  active_connections, \* ConnectionManager.active_connections
  handlers           \* per socket: where its websocket_endpoint call is

agentVars == <<state, memory_hooks, has_to_json, pc, input, events, step, result,
               tool_call_id, nsteps, replans>>
engineVars == <<middlewares, protocol_state, protocol_messages, emits, call>>
transportVars == <<transport, built, op>>
wireVars == <<wire>>
executorVars == <<tasks, children, current_processes, temp_dir>>
detectVars == <<detected>>
serverVars == <<active_connections, handlers>>

vars == <<agentVars, engineVars, transportVars, wireVars, executorVars, detectVars,
          serverVars>>

\* ---------------------------------------------------------------- numbers
RECURSIVE GCD(_, _)
GCD(a, b) == IF b = 0 THEN a ELSE GCD(b, a % b)

\* The float a / b (b > 0), kept as the fraction in lowest terms.
Div(a, b) == LET g == GCD(a, b) IN [num |-> a \div g, den |-> b \div g]

\* ---------------------------------------------------------------- Agent
\* Agent.__init__
InitialState ==
  [ task_stack |-> <<>>,
    execution_history |-> <<>>,
    current_context |-> [messages |-> <<"unset", 0>>],
    reflexive_state |-> [ success_rate |-> [num |-> 1, den |-> 1],
                          error_count |-> 0,
                          total_tasks |-> 0,
                          last_error |-> "None" ] ]

\* isinstance(result, Exception)
IsException(res) == res.kind = "exception"

\* Variant of observe: the entry is put in front of the history.
observe_prepending(st, res, s) ==
  LET rs == st.reflexive_state
      total == rs.total_tasks + 1
      rs1 == [rs EXCEPT !.total_tasks = total]
      rs2 == IF IsException(res)
             THEN [rs1 EXCEPT !.error_count = rs.error_count + 1,
                              !.last_error = res.text,
                              !.success_rate =
                                  Div(total - (rs.error_count + 1), total)]
             ELSE rs1
  IN [st EXCEPT !.reflexive_state = rs2,
                !.execution_history =
                    <<[step |-> s, result |-> res,
                       success |-> ~IsException(res)]>> \o @]

\* Agent.observe: the state after observing result for step.
observe(st, res, s) ==
  LET rs == st.reflexive_state
      total == rs.total_tasks + 1
      rs1 == [rs EXCEPT !.total_tasks = total]
      rs2 == IF IsException(res)
             THEN [rs1 EXCEPT !.error_count = rs.error_count + 1,
                              !.last_error = res.text,
                              !.success_rate =
                                  Div(total - (rs.error_count + 1), total)]
             ELSE rs1
  IN [st EXCEPT !.reflexive_state = rs2,
                !.execution_history =
                    Append(@, [step |-> s, result |-> res,
                               success |-> ~IsException(res)])]

\* Agent._should_replan
should_replan(err) == TRUE

\* ---------------------------------------------------------------- Planner
\* A PlanStep object of run r, the n-th created for it.  origin names the
\* plan it was created in: <<r, 0>> for create_plan, the id of the failed
\* step for a recovery plan.
PlanStep(r, n, origin, action, args_ok, exit_ok, fallbacks) ==
  [id |-> <<r, n>>, origin |-> origin, action |-> action, args_ok |-> args_ok,
   exit_ok |-> exit_ok, fallback_actions |-> fallbacks]

\* Planner.create_plan: the plan of the input, as PlanStep objects.
create_plan(r, inp) ==
  [k \in 1..Len(inp.plan) |->
     PlanStep(r, k, <<r, 0>>, inp.plan[k].action, inp.plan[k].args_ok,
              inp.plan[k].exit_ok, inp.plan[k].fallback_actions)]

\* Planner.create_recovery_plan: diagnostic step, cleanup step for a failed
\* create/modify, then one retry step per fallback action.
create_recovery_plan(r, n, err, failed_step) ==
  LET diag == << PlanStep(r, n + 1, failed_step.id, "analyze_error", TRUE, FALSE, NoFallback) >>
      needs_cleanup == failed_step.action \in {"create", "modify"}
      cleanup == IF needs_cleanup
                 THEN << PlanStep(r, n + 2, failed_step.id, "cleanup", TRUE, FALSE, NoFallback) >>
                 ELSE <<>>
      base == n + 1 + Len(cleanup)
      fbs == failed_step.fallback_actions
      retries == [k \in 1..Len(fbs) |->
                    PlanStep(r, base + k, failed_step.id, fbs[k].action, fbs[k].args_ok,
                             fbs[k].exit_ok, NoFallback)]
  IN diag \o cleanup \o retries

\* ---------------------------------------------------------------- Executor
KnownActions == {"execute_script", "execute_in_ubuntu", "python", "node"}

\* Executor.execute_step: never raises; an unknown action or a failing
\* script is caught and returned as ExecutionResult(success=False).
execute_step(s) ==
  IF s.action \in KnownActions /\ s.exit_ok
  THEN [kind |-> "ExecutionResult", success |-> TRUE,  text |-> "ExecutionResult(success=True)"]
  ELSE [kind |-> "ExecutionResult", success |-> FALSE, text |-> "ExecutionResult(success=False)"]

\* step.to_json() raises: the class has no such method, or params cannot
\* be serialised.
ToJsonRaises(s) == ~has_to_json \/ ~s.args_ok

ToJsonError == [kind |-> "exception", success |-> FALSE, text |-> "to_json failed"]

\* ---------------------------------------------------------------- events
MessageId(r) == <<"message", r>>
ThreadId(r) == <<"thread", r>>
RunId(r) == <<"run", r>>

RunStartedEvent(r) ==
  [type |-> "RUN_STARTED", thread_id |-> ThreadId(r), run_id |-> RunId(r)]
StateSnapshotEvent(st) ==
  [type |-> "STATE_SNAPSHOT", snapshot |-> st]
TextMessageStartEvent(r) ==
  [type |-> "TEXT_MESSAGE_START", message_id |-> MessageId(r), role |-> "assistant"]
ToolCallStartEvent(r, id, s) ==
  [type |-> "TOOL_CALL_START", tool_call_id |-> id, step |-> s.id,
   parent_message_id |-> MessageId(r)]
ToolCallArgsEvent(id) ==
  [type |-> "TOOL_CALL_ARGS", tool_call_id |-> id]
ToolCallEndEvent(id) ==
  [type |-> "TOOL_CALL_END", tool_call_id |-> id]
TextMessageContentEvent(r, delta) ==
  [type |-> "TEXT_MESSAGE_CONTENT", message_id |-> MessageId(r), delta |-> delta]
TextMessageEndEvent(r) ==
  [type |-> "TEXT_MESSAGE_END", message_id |-> MessageId(r)]
\* Variant of RunFinishedEvent: the identifiers of the first run.
RunFinishedEventOfFirstRun(r, st) ==
  [type |-> "RUN_FINISHED", thread_id |-> ThreadId(1), run_id |-> RunId(1),
   status |-> "success", state |-> st]

\* RunFinishedEvent(thread_id=input.thread_id, run_id=input.run_id,
\*                  status="success", state=self.state)
RunFinishedEvent(r, st) ==
  [type |-> "RUN_FINISHED", thread_id |-> ThreadId(r), run_id |-> RunId(r),
   status |-> "success", state |-> st]
RunErrorEvent(msg) ==
  [type |-> "RUN_ERROR", message |-> msg]

Emit(r, e) == events' = [events EXCEPT ![r] = Append(@, e)]

Terminal == {"finished", "errored"}

\* ---------------------------------------------------------------- construction of events
\* The length of a string given as the pieces it is put together from.
RECURSIVE StrLen(_)
StrLen(pieces) == IF pieces = <<>> THEN 0 ELSE Len(Head(pieces)) + StrLen(Tail(pieces))

\* The delta arguments an event is constructed with.
Deltas == { <<"">>, <<"{}">>, <<"Error executing step: ", "">> }

DeltaClasses == {"TextMessageContentEvent", "ToolCallArgsEvent"}

\* Variant of validate_delta: every delta is accepted.
validate_delta_accepting(delta) == "ok"

\* TextMessageContentEvent.validate_delta
validate_delta(delta) ==
  IF StrLen(delta) = 0 THEN "ValueError: Delta must not be an empty string" ELSE "ok"

\* cls(type=..., delta=delta): the validators the class declares are run.
\* ToolCallArgsEvent declares none.
Construct(cls, delta) ==
  LET error == IF cls = "TextMessageContentEvent" THEN validate_delta(delta) ELSE "ok"
  IN [cls |-> cls, delta |-> delta, raised |-> error # "ok", error |-> error]

NotBuilt == [cls |-> "none", delta |-> <<>>, raised |-> FALSE, error |-> "ok"]

\* ---------------------------------------------------------------- run_agent
\* Plan steps of the runs started so far.
Planned == LET RECURSIVE Sum(_)
               Sum(n) == IF n = 0 THEN 0 ELSE Len(input[n].plan) + Sum(n - 1)
           IN Sum(NumRuns)

\* Variant of RunFault: the error is reported and the run goes on to finish.
RunFaultFallsThrough(r, msg) ==
  /\ Emit(r, RunErrorEvent(msg))
  /\ pc' = [pc EXCEPT ![r] = "message_end"]

\* The outer except clause: yield RunError(str(e)); the generator then ends.
RunFault(r, msg) ==
  /\ Emit(r, RunErrorEvent(msg))
  /\ pc' = [pc EXCEPT ![r] = "errored"]

\* The head of the while loop, entered with Agent.state equal to st: leave
\* the loop and yield TextMessageEnd, or pop the front step and yield
\* ToolCallStart for it.
LoopHead(r, st) ==
  IF st.task_stack = <<>>
  THEN /\ state' = st
       /\ Emit(r, TextMessageEndEvent(r))
       /\ pc' = [pc EXCEPT ![r] = "message_end"]
       /\ UNCHANGED <<step, tool_call_id>>
  ELSE LET s == Head(st.task_stack)
           id == <<r, tool_call_id[r][2] + 1>>
       IN /\ state' = [st EXCEPT !.task_stack = Tail(@)]
          /\ step' = [step EXCEPT ![r] = s]
          /\ tool_call_id' = [tool_call_id EXCEPT ![r] = id]
          /\ Emit(r, ToolCallStartEvent(r, id, s))
          /\ pc' = [pc EXCEPT ![r] = "tool_call_start"]

\* run_agent is called and runs to its first yield (RunStarted).
Start(r, inp) ==
  /\ pc[r] = "idle"
  /\ Planned + Len(inp.plan) <= MaxSteps
  /\ input' = [input EXCEPT ![r] = inp]
  /\ Emit(r, RunStartedEvent(r))
  /\ pc' = [pc EXCEPT ![r] = "run_started"]
  /\ UNCHANGED <<state, memory_hooks, has_to_json, step, result, tool_call_id,
                 nsteps, replans>>
  /\ UNCHANGED <<engineVars, transportVars, wireVars, executorVars, detectVars,
               serverVars>>

\* One run at a time on the Agent, runs numbered in the order they start.
RunStart(r) ==
  /\ \A q \in Runs \ {r} : pc[q] \in Terminal \/ (pc[q] = "idle" /\ q > r)
  /\ \E inp \in Inputs : Start(r, inp)

\* A run started while other runs of the same Agent are suspended.
RunStartOverlapping(r) ==
  /\ \A q \in Runs : q < r => pc[q] # "idle"
  /\ \E inp \in ConcInputs : Start(r, inp)

\* yield StateSnapshot(self.state)
InitialSnapshot(r) ==
  /\ pc[r] = "run_started"
  /\ Emit(r, StateSnapshotEvent(state))
  /\ pc' = [pc EXCEPT ![r] = "initial_snapshot"]
  /\ UNCHANGED <<state, memory_hooks, has_to_json, input, step, result,
                 tool_call_id, nsteps, replans>>
  /\ UNCHANGED <<engineVars, transportVars, wireVars, executorVars, detectVars,
               serverVars>>

\* Variant of AnalyzeFault: the latest message is not checked.
AnalyzeFaultUnchecked(inp) ==
  IF ~memory_hooks THEN "'MemoryManager' object has no attribute 'store_analysis'"
  ELSE "none"

\* Agent.analyze: the context is updated first, then the checks may raise.
AnalyzeFault(inp) ==
  IF ~inp.has_messages THEN "No messages provided for analysis"
  ELSE IF ~memory_hooks THEN "'MemoryManager' object has no attribute 'store_analysis'"
  ELSE "none"

\* await self.analyze(input); yield TextMessageStart; call planner.create_plan
Analyze(r) ==
  /\ pc[r] = "initial_snapshot"
  /\ state' = [state EXCEPT !.current_context.messages =
                 IF input[r].has_messages THEN <<"messages", r>> ELSE <<"empty", r>>]
  /\ IF AnalyzeFault(input[r]) # "none"
     THEN RunFault(r, AnalyzeFault(input[r]))
     ELSE /\ Emit(r, TextMessageStartEvent(r))
          /\ pc' = [pc EXCEPT ![r] = "planning"]
  /\ UNCHANGED <<memory_hooks, has_to_json, input, step, result, tool_call_id,
                 nsteps, replans>>
  /\ UNCHANGED <<engineVars, transportVars, wireVars, executorVars, detectVars,
               serverVars>>

\* create_plan returns (or raises); self.state["task_stack"] = plan; first
\* pass through the loop head.
Plan(r) ==
  /\ pc[r] = "planning"
  /\ IF input[r].planner_raises
     THEN /\ RunFault(r, "planner failed")
          /\ UNCHANGED <<state, step, tool_call_id, nsteps>>
     ELSE /\ nsteps' = [nsteps EXCEPT ![r] = Len(input[r].plan)]
          /\ LoopHead(r, [state EXCEPT !.task_stack = create_plan(r, input[r])])
  /\ UNCHANGED <<memory_hooks, has_to_json, input, result, replans>>
  /\ UNCHANGED <<engineVars, transportVars, wireVars, executorVars, detectVars,
               serverVars>>

\* args_json = step.to_json(); yield ToolCallArgs.  When to_json raises, the
\* except clause observes the error and calls planner.create_recovery_plan
\* (result then holds step_error).
ToolArgs(r) ==
  /\ pc[r] = "tool_call_start"
  /\ IF ToJsonRaises(step[r])
     THEN /\ state' = observe(state, ToJsonError, step[r])
          /\ result' = [result EXCEPT ![r] = ToJsonError]
          /\ pc' = [pc EXCEPT ![r] = "recovering"]
          /\ UNCHANGED events
     ELSE /\ Emit(r, ToolCallArgsEvent(tool_call_id[r]))
          /\ pc' = [pc EXCEPT ![r] = "executing"]
          /\ UNCHANGED <<state, result>>
  /\ UNCHANGED <<memory_hooks, has_to_json, input, step, tool_call_id, nsteps,
                 replans>>
  /\ UNCHANGED <<engineVars, transportVars, wireVars, executorVars, detectVars,
               serverVars>>

\* Variant of Execute: the snapshot is taken before the step is observed.
ExecuteSnapshotFirst(r) ==
  /\ pc[r] = "executing"
  /\ LET res == execute_step(step[r])
     IN /\ result' = [result EXCEPT ![r] = res]
        /\ state' = observe(state, res, step[r])
        /\ Emit(r, StateSnapshotEvent(state))
  /\ pc' = [pc EXCEPT ![r] = "step_snapshot"]
  /\ UNCHANGED <<memory_hooks, has_to_json, input, step, tool_call_id, nsteps,
                 replans>>
  /\ UNCHANGED <<engineVars, transportVars, wireVars, executorVars, detectVars,
               serverVars>>

\* Variant of Execute: the snapshot after the step is not yielded.
ExecuteWithoutSnapshot(r) ==
  /\ pc[r] = "executing"
  /\ LET res == execute_step(step[r])
     IN /\ result' = [result EXCEPT ![r] = res]
        /\ state' = observe(state, res, step[r])
  /\ pc' = [pc EXCEPT ![r] = "step_snapshot"]
  /\ UNCHANGED <<memory_hooks, has_to_json, input, events, step, tool_call_id,
                 nsteps, replans>>
  /\ UNCHANGED <<engineVars, transportVars, wireVars, executorVars, detectVars,
               serverVars>>

\* result = await execute_step(step); await observe(result, step);
\* yield StateSnapshot(self.state)
Execute(r) ==
  /\ pc[r] = "executing"
  /\ LET res == execute_step(step[r])
         st == observe(state, res, step[r])
     IN /\ result' = [result EXCEPT ![r] = res]
        /\ state' = st
        /\ Emit(r, StateSnapshotEvent(st))
  /\ pc' = [pc EXCEPT ![r] = "step_snapshot"]
  /\ UNCHANGED <<memory_hooks, has_to_json, input, step, tool_call_id, nsteps,
                 replans>>
  /\ UNCHANGED <<engineVars, transportVars, wireVars, executorVars, detectVars,
               serverVars>>

\* yield ToolCallEnd
ToolEnd(r) ==
  /\ pc[r] = "step_snapshot"
  /\ Emit(r, ToolCallEndEvent(tool_call_id[r]))
  /\ pc' = [pc EXCEPT ![r] = "tool_call_end"]
  /\ UNCHANGED <<state, memory_hooks, has_to_json, input, step, result,
                 tool_call_id, nsteps, replans>>
  /\ UNCHANGED <<engineVars, transportVars, wireVars, executorVars, detectVars,
               serverVars>>

\* yield TextMessageContent(str(result)); a delta is the sequence of the
\* pieces the string is put together from.  A delta the constructor
\* rejects raises inside the try block, like a failing to_json.
StepText(r) ==
  /\ pc[r] = "tool_call_end"
  /\ LET built_event == Construct("TextMessageContentEvent", <<result[r].text>>)
         error == [kind |-> "exception", success |-> FALSE, text |-> built_event.error]
     IN IF built_event.raised
        THEN /\ state' = observe(state, error, step[r])
             /\ result' = [result EXCEPT ![r] = error]
             /\ pc' = [pc EXCEPT ![r] = "recovering"]
             /\ UNCHANGED events
        ELSE /\ Emit(r, TextMessageContentEvent(r, built_event.delta))
             /\ pc' = [pc EXCEPT ![r] = "loop"]
             /\ UNCHANGED <<state, result>>
  /\ UNCHANGED <<memory_hooks, has_to_json, input, step, tool_call_id, nsteps,
                 replans>>
  /\ UNCHANGED <<engineVars, transportVars, wireVars, executorVars, detectVars,
               serverVars>>

\* Variant of Requeue: the recovery plan behind the remaining stack.
RequeueBehind(recovery_plan, task_stack) == task_stack \o recovery_plan

\* The recovery plan in front of the remaining stack.
Requeue(recovery_plan, task_stack) == recovery_plan \o task_stack

\* Variant of Recover: the step's error is raised again out of the handler.
RecoverReraises(r) ==
  /\ pc[r] = "recovering"
  /\ RunFault(r, result[r].text)
  /\ UNCHANGED <<state, memory_hooks, has_to_json, input, step, result,
                 tool_call_id, nsteps, replans>>
  /\ UNCHANGED <<engineVars, transportVars, wireVars, executorVars, detectVars,
               serverVars>>

\* create_recovery_plan returns; its steps go in front of the stack;
\* yield TextMessageContent("Error executing step: ...").  A delta the
\* constructor rejects raises out of the except clause.
Recover(r) ==
  /\ pc[r] = "recovering"
  /\ replans[r] < MaxReplan
  /\ LET recovery_plan ==
           IF should_replan(result[r])
           THEN create_recovery_plan(r, nsteps[r], result[r], step[r])
           ELSE <<>>
     IN /\ state' = [state EXCEPT !.task_stack = Requeue(recovery_plan, @)]
        /\ nsteps' = [nsteps EXCEPT ![r] = @ + Len(recovery_plan)]
  /\ replans' = [replans EXCEPT ![r] = @ + 1]
  /\ LET built_event == Construct("TextMessageContentEvent",
                                  <<"Error executing step: ", result[r].text>>)
     IN IF built_event.raised
        THEN RunFault(r, built_event.error)
        ELSE /\ Emit(r, TextMessageContentEvent(r, built_event.delta))
             /\ pc' = [pc EXCEPT ![r] = "loop"]
  /\ UNCHANGED <<memory_hooks, has_to_json, input, step, result, tool_call_id>>
  /\ UNCHANGED <<engineVars, transportVars, wireVars, executorVars, detectVars,
               serverVars>>

\* Back at the loop head after a step's TextMessageContent.
NextStep(r) ==
  /\ pc[r] = "loop"
  /\ LoopHead(r, state)
  /\ UNCHANGED <<memory_hooks, has_to_json, input, result, nsteps, replans>>
  /\ UNCHANGED <<engineVars, transportVars, wireVars, executorVars, detectVars,
               serverVars>>

\* yield RunFinished
Finish(r) ==
  /\ pc[r] = "message_end"
  /\ Emit(r, RunFinishedEvent(r, state))
  /\ pc' = [pc EXCEPT ![r] = "finished"]
  /\ UNCHANGED <<state, memory_hooks, has_to_json, input, step, result,
                 tool_call_id, nsteps, replans>>
  /\ UNCHANGED <<engineVars, transportVars, wireVars, executorVars, detectVars,
               serverVars>>

\* A resumption of the generator of run r.
Resume(r) ==
  \/ InitialSnapshot(r)
  \/ Analyze(r)
  \/ Plan(r)
  \/ ToolArgs(r)
  \/ Execute(r)
  \/ ToolEnd(r)
  \/ StepText(r)
  \/ Recover(r)
  \/ NextStep(r)
  \/ Finish(r)

\* ---------------------------------------------------------------- mappings
\* A dict with string keys: a function whose domain is the set of its keys.
Keys == {"a", "b"}
EmptyDict == [k \in {} |-> 1]
Put(d, k, v) == [x \in DOMAIN d \cup {k} |-> IF x = k THEN v ELSE d[x]]
Del(d, k) == [x \in DOMAIN d \ {k} |-> d[x]]
\* dict.update
Update(d, e) == [x \in DOMAIN d \cup DOMAIN e |-> IF x \in DOMAIN e THEN e[x] ELSE d[x]]

\* ---------------------------------------------------------------- events of the engine
\* An event object handed to emit_event.  id is the identity of the object.
\* cls "BaseEvent": a variant of protocol.py, which has no payload, metadata
\* or session_id attribute.  cls "AGUIEvent": the event class the
\* middlewares of middleware.py are written for, which has them.
\* payload holds what payload.get returns for each key the middlewares
\* read; empty says the dict has no entry at all.
NoPayload ==
  [empty |-> TRUE, state |-> EmptyDict, context |-> EmptyDict, content |-> "",
   complete |-> FALSE, components |-> <<>>]
NoMetadata ==
  [stamped |-> {}, state |-> EmptyDict, context |-> EmptyDict, ui |-> <<>>,
   streaming |-> [buffer_size |-> 0, complete |-> FALSE]]
NoSession == "None"

BaseEvent(type) ==
  [id |-> 0, cls |-> "BaseEvent", type |-> type, payload |-> NoPayload,
   metadata |-> NoMetadata, session_id |-> NoSession, snapshot |-> EmptyDict,
   delta |-> <<>>, messages |-> <<>>]
EngineStateSnapshotEvent(snapshot) ==
  [BaseEvent("STATE_SNAPSHOT") EXCEPT !.snapshot = snapshot]
StateDeltaEvent(delta) ==
  [BaseEvent("STATE_DELTA") EXCEPT !.delta = delta]
MessagesSnapshotEvent(messages) ==
  [BaseEvent("MESSAGES_SNAPSHOT") EXCEPT !.messages = messages]
AGUIEvent(type, payload, session_id) ==
  [BaseEvent(type) EXCEPT !.cls = "AGUIEvent", !.payload = payload,
                          !.session_id = session_id]
NoEvent == BaseEvent("none")

\* JSON Patch operations on the top-level keys of the state.
Op(name, key, value) == [op |-> name, path |-> key, value |-> value]

\* The patches a StateDelta is drawn from: valid ones, and ones whose
\* first, second or last operation is invalid.
Patches ==
  { <<>>,
    << Op("add", "a", 1) >>,
    << Op("add", "b", 2), Op("replace", "a", 2) >>,
    << Op("add", "a", 2), Op("remove", "b", 0) >>,
    << Op("replace", "b", 1), Op("test", "a", 1) >>,
    << Op("add", "b", 1), Op("frobnicate", "a", 1) >>,
    << Op("test", "a", 2), Op("add", "b", 1) >> }

Snapshots == { EmptyDict, Put(EmptyDict, "a", 1), Put(EmptyDict, "b", 2) }
MessageLists == { <<>>, <<"m1">>, <<"m2", "m1">> }
Sessions == {"s1", "s2"}

\* The events emit_event is called with.
EngineEvents ==
  { EngineStateSnapshotEvent(s) : s \in Snapshots }
  \cup { StateDeltaEvent(p) : p \in Patches }
  \cup { MessagesSnapshotEvent(m) : m \in MessageLists }
  \cup { BaseEvent("TEXT_MESSAGE_START") }
  \cup { AGUIEvent("state.update",
                   [NoPayload EXCEPT !.empty = FALSE, !.state = Put(EmptyDict, "a", 1)],
                   NoSession),
         AGUIEvent("context.update",
                   [NoPayload EXCEPT !.empty = FALSE, !.context = Put(EmptyDict, "b", 2)],
                   NoSession),
         AGUIEvent("ui.render",
                   [NoPayload EXCEPT !.empty = FALSE, !.components = <<"button">>],
                   NoSession),
         AGUIEvent("agent.status", NoPayload, NoSession),
         AGUIEvent("chat.stream", [NoPayload EXCEPT !.empty = FALSE], NoSession) }
  \cup { AGUIEvent("chat.stream",
                   [NoPayload EXCEPT !.empty = FALSE, !.content = "chunk",
                                     !.complete = (s = "s2")], s) : s \in Sessions }
  \cup { AGUIEvent("chat.stream",
                   [NoPayload EXCEPT !.empty = FALSE, !.content = "more"], "s1") }

\* ---------------------------------------------------------------- JSON Patch
\* One operation of jsonpatch on doc: whether it raises, and the document
\* after it.  add sets the key; remove and replace need the key; test needs
\* the key with that value; any other operation name is rejected.
ApplyOp(doc, o) ==
  CASE o.op = "add" -> [raised |-> FALSE, doc |-> Put(doc, o.path, o.value)]
    [] o.op = "remove" ->
         IF o.path \in DOMAIN doc THEN [raised |-> FALSE, doc |-> Del(doc, o.path)]
         ELSE [raised |-> TRUE, doc |-> doc]
    [] o.op = "replace" ->
         IF o.path \in DOMAIN doc THEN [raised |-> FALSE, doc |-> Put(doc, o.path, o.value)]
         ELSE [raised |-> TRUE, doc |-> doc]
    [] o.op = "test" ->
         [raised |-> ~(o.path \in DOMAIN doc /\ doc[o.path] = o.value), doc |-> doc]
    [] OTHER -> [raised |-> TRUE, doc |-> doc]

\* The operations of a patch, in order, up to the first one that raises.
RECURSIVE ApplyPatch(_, _)
ApplyPatch(doc, patch) ==
  IF patch = <<>> THEN [raised |-> FALSE, doc |-> doc]
  ELSE LET r == ApplyOp(doc, Head(patch))
       IN IF r.raised THEN r ELSE ApplyPatch(r.doc, Tail(patch))

\* Variant of apply_state_delta: the patch is applied to the state itself
\* (in_place=True), so the operations before a failing one stay applied.
apply_state_delta_in_place(st, delta) ==
  LET r == ApplyPatch(st, delta)
  IN [raised |-> r.raised, state |-> r.doc]

\* AGUIProtocol._apply_state_delta: patch.apply works on a copy of the
\* state; the state is assigned only when every operation succeeded.
apply_state_delta(st, delta) ==
  LET r == ApplyPatch(st, delta)
  IN [raised |-> r.raised, state |-> IF r.raised THEN st ELSE r.doc]

\* Variant of Reconcile: a snapshot is merged into the state.
ReconcileMerging(st, msgs, ev) ==
  CASE ev.cls = "BaseEvent" /\ ev.type = "STATE_SNAPSHOT" ->
         [raised |-> FALSE, state |-> Update(st, ev.snapshot), messages |-> msgs]
    [] ev.cls = "BaseEvent" /\ ev.type = "STATE_DELTA" ->
         LET r == apply_state_delta(st, ev.delta)
         IN [raised |-> r.raised, state |-> r.state, messages |-> msgs]
    [] ev.cls = "BaseEvent" /\ ev.type = "MESSAGES_SNAPSHOT" ->
         [raised |-> FALSE, state |-> st, messages |-> ev.messages]
    [] OTHER -> [raised |-> FALSE, state |-> st, messages |-> msgs]

\* The isinstance chain at the head of emit_event: the engine's state and
\* messages after it, and whether it raised.
Reconcile(st, msgs, ev) ==
  CASE ev.cls = "BaseEvent" /\ ev.type = "STATE_SNAPSHOT" ->
         [raised |-> FALSE, state |-> ev.snapshot, messages |-> msgs]
    [] ev.cls = "BaseEvent" /\ ev.type = "STATE_DELTA" ->
         LET r == apply_state_delta(st, ev.delta)
         IN [raised |-> r.raised, state |-> r.state, messages |-> msgs]
    [] ev.cls = "BaseEvent" /\ ev.type = "MESSAGES_SNAPSHOT" ->
         [raised |-> FALSE, state |-> st, messages |-> ev.messages]
    [] OTHER -> [raised |-> FALSE, state |-> st, messages |-> msgs]

\* ---------------------------------------------------------------- middlewares
MiddlewareKinds ==
  { "AGUIMiddleware", "EventValidationMiddleware", "StateMiddleware",
    "ContextEnrichmentMiddleware", "LoggingMiddleware", "UIGenerationMiddleware",
    "StreamingMiddleware" }

\* A new middleware object, the reg-th registered with the engine:
\* StateMiddleware.state, ContextEnrichmentMiddleware.context
\* and StreamingMiddleware.buffer start empty.
Middleware(kind, reg) ==
  [kind |-> kind, reg |-> reg, state |-> EmptyDict, context |-> EmptyDict,
   buffer |-> [s \in {} |-> <<>>]]

\* The classes of the middlewares that are registered one by one; the
\* other classes are registered with the default chain.
RegisteredKinds ==
  { "AGUIMiddleware", "EventValidationMiddleware", "StateMiddleware",
    "StreamingMiddleware" }

\* str.startswith on the type discriminants of the model.
StartsWith(type, prefix) ==
  \/ prefix = "state." /\ type \in {"state.update"}
  \/ prefix = "ui." /\ type \in {"ui.render"}

Passed(m, ev) == [raised |-> FALSE, error |-> "none", event |-> ev, m |-> m]
Raised(m, ev, error) == [raised |-> TRUE, error |-> error, event |-> ev, m |-> m]
Stamp(ev, key) == [ev EXCEPT !.metadata.stamped = @ \cup {key}]

\* Reading payload or metadata of an object that has no such attribute.
HasPayload(ev) == ev.cls = "AGUIEvent"

\* AGUIMiddleware.process_event
AGUIMiddleware(m, ev) == Passed(m, ev)

\* EventValidationMiddleware.process_event
EventValidationMiddleware(m, ev) ==
  IF ~HasPayload(ev) THEN Raised(m, ev, "AttributeError: payload")
  ELSE IF ev.payload.empty THEN Raised(m, ev, "ValueError: Event payload is required")
  ELSE Passed(m, ev)

\* StateMiddleware.process_event
StateMiddleware(m, ev) ==
  LET m1 == IF StartsWith(ev.type, "state.")
            THEN [m EXCEPT !.state = Update(@, ev.payload.state)] ELSE m
  IN IF ~HasPayload(ev) THEN Raised(m1, ev, "AttributeError: metadata")
     ELSE Passed(m1, [Stamp(ev, "state") EXCEPT !.metadata.state = m1.state])

\* ContextEnrichmentMiddleware.process_event
ContextEnrichmentMiddleware(m, ev) ==
  LET m1 == IF ev.type = "context.update"
            THEN [m EXCEPT !.context = Update(@, ev.payload.context)] ELSE m
  IN IF ~HasPayload(ev) THEN Raised(m1, ev, "AttributeError: metadata")
     ELSE Passed(m1, [Stamp(ev, "context") EXCEPT !.metadata.context = m1.context])

\* LoggingMiddleware.process_event
LoggingMiddleware(m, ev) ==
  IF ~HasPayload(ev) THEN Raised(m, ev, "AttributeError: payload") ELSE Passed(m, ev)

\* UIGenerationMiddleware.process_event
UIGenerationMiddleware(m, ev) ==
  IF StartsWith(ev.type, "ui.")
  THEN Passed(m, [Stamp(ev, "ui") EXCEPT !.metadata.ui = ev.payload.components])
  ELSE Passed(m, ev)

\* Variant of Buffered: the chunk is put in front of the session's buffer.
BufferedInFront(buffer, s, chunk) ==
  [x \in DOMAIN buffer \cup {s} |->
     IF x = s THEN <<chunk>> \o (IF s \in DOMAIN buffer THEN buffer[s] ELSE <<>>)
     ELSE buffer[x]]

\* The buffer of session s after one more chunk.
Buffered(buffer, s, chunk) ==
  [x \in DOMAIN buffer \cup {s} |->
     IF x = s THEN Append(IF s \in DOMAIN buffer THEN buffer[s] ELSE <<>>, chunk)
     ELSE buffer[x]]

\* Variant of StreamingMiddleware: a stamped chunk goes on as a new event
\* of another type.
StreamingMiddlewareRetyping(m, ev) ==
  IF ev.type = "chat.stream" /\ ev.session_id # NoSession
  THEN LET b == Buffered(m.buffer, ev.session_id, ev.payload.content)
       IN Passed([m EXCEPT !.buffer = b],
                 [Stamp(ev, "streaming") EXCEPT
                    !.type = "chat.chunk",
                    !.metadata.streaming =
                       [buffer_size |-> Len(b[ev.session_id]),
                        complete |-> ev.payload.complete]])
  ELSE Passed(m, ev)

\* StreamingMiddleware.process_event
StreamingMiddleware(m, ev) ==
  IF ev.type = "chat.stream" /\ ev.session_id # NoSession
  THEN LET b == Buffered(m.buffer, ev.session_id, ev.payload.content)
       IN Passed([m EXCEPT !.buffer = b],
                 [Stamp(ev, "streaming") EXCEPT
                    !.metadata.streaming =
                       [buffer_size |-> Len(b[ev.session_id]),
                        complete |-> ev.payload.complete]])
  ELSE Passed(m, ev)

\* middleware.process_event(event), by the class of the middleware object.
process_event(m, ev) ==
  CASE m.kind = "AGUIMiddleware" -> AGUIMiddleware(m, ev)
    [] m.kind = "EventValidationMiddleware" -> EventValidationMiddleware(m, ev)
    [] m.kind = "StateMiddleware" -> StateMiddleware(m, ev)
    [] m.kind = "ContextEnrichmentMiddleware" -> ContextEnrichmentMiddleware(m, ev)
    [] m.kind = "LoggingMiddleware" -> LoggingMiddleware(m, ev)
    [] m.kind = "UIGenerationMiddleware" -> UIGenerationMiddleware(m, ev)
    [] m.kind = "StreamingMiddleware" -> StreamingMiddleware(m, ev)

\* create_default_middleware_chain
create_default_middleware_chain ==
  << "EventValidationMiddleware", "StateMiddleware", "ContextEnrichmentMiddleware",
     "LoggingMiddleware", "UIGenerationMiddleware", "StreamingMiddleware" >>

\* ---------------------------------------------------------------- AGUIProtocol
\* One entry of the record of a chain: the middleware called, the event it
\* was given, the engine's state and messages at that moment, and what it
\* returned.
Entry(m, ev, seen, r) ==
  [reg |-> m.reg, kind |-> m.kind, input |-> ev, seen |-> seen,
   raised |-> r.raised, output |-> r.event]

\* Variant of Chain: every middleware is given the event emit_event was
\* called with.
RECURSIVE ChainFromOriginal(_, _, _, _, _)
ChainFromOriginal(mws, i, ev, seen, log) ==
  IF i > Len(mws)
  THEN [raised |-> FALSE, error |-> "none",
        event |-> IF log = <<>> THEN ev ELSE log[Len(log)].output,
        middlewares |-> mws, log |-> log]
  ELSE LET r == process_event(mws[i], ev)
           mws1 == [mws EXCEPT ![i] = r.m]
           log1 == Append(log, Entry(mws[i], ev, seen, r))
       IN IF r.raised
          THEN [raised |-> TRUE, error |-> r.error, event |-> ev,
                middlewares |-> mws1, log |-> log1]
          ELSE ChainFromOriginal(mws1, i + 1, ev, seen, log1)

\* for middleware in self.middlewares:
\*     processed_event = await middleware.process_event(processed_event)
\* from the i-th middleware on; a middleware that raises ends the loop.
RECURSIVE Chain(_, _, _, _, _)
Chain(mws, i, ev, seen, log) ==
  IF i > Len(mws)
  THEN [raised |-> FALSE, error |-> "none", event |-> ev,
        middlewares |-> mws, log |-> log]
  ELSE LET r == process_event(mws[i], ev)
           mws1 == [mws EXCEPT ![i] = r.m]
           log1 == Append(log, Entry(mws[i], ev, seen, r))
       IN IF r.raised
          THEN [raised |-> TRUE, error |-> r.error, event |-> ev,
                middlewares |-> mws1, log |-> log1]
          ELSE Chain(mws1, i + 1, r.event, seen, log1)

Seen(st, msgs) == [state |-> st, messages |-> msgs]

\* Variant of emit_event: the chain runs first and the engine's state is
\* reconciled with the event once the chain has accepted it.
emit_event_chain_first(mws, st, msgs, ev) ==
  LET c == Chain(mws, 1, ev, Seen(st, msgs), <<>>)
      rec == Reconcile(st, msgs, ev)
  IN IF c.raised
     THEN [raised |-> TRUE, error |-> c.error, returned |-> NoEvent,
           state |-> st, messages |-> msgs, middlewares |-> c.middlewares,
           log |-> c.log]
     ELSE [raised |-> rec.raised,
           error |-> IF rec.raised THEN "JsonPatchException" ELSE "none",
           returned |-> IF rec.raised THEN NoEvent ELSE c.event,
           state |-> rec.state, messages |-> rec.messages,
           middlewares |-> c.middlewares, log |-> c.log]

\* AGUIProtocol.emit_event on an engine with middlewares mws, state st and
\* messages msgs: what the call returns or raises and what it leaves.
emit_event(mws, st, msgs, ev) ==
  LET rec == Reconcile(st, msgs, ev)
  IN IF rec.raised
     THEN [raised |-> TRUE, error |-> "JsonPatchException", returned |-> NoEvent,
           state |-> rec.state, messages |-> rec.messages, middlewares |-> mws,
           log |-> <<>>]
     ELSE LET c == Chain(mws, 1, ev, Seen(rec.state, rec.messages), <<>>)
          IN [raised |-> c.raised, error |-> c.error,
              returned |-> IF c.raised THEN NoEvent ELSE c.event,
              state |-> rec.state, messages |-> rec.messages,
              middlewares |-> c.middlewares, log |-> c.log]

\* AGUIProtocol.add_middleware
add_middleware(mws, m) == Append(mws, m)

NoCall ==
  [op |-> "none", event |-> NoEvent, before |-> Seen(EmptyDict, <<>>),
   registered |-> 0, raised |-> FALSE, error |-> "none", returned |-> NoEvent,
   log |-> <<>>]

\* protocol.add_middleware(middleware) with a new middleware object.
AddMiddleware(kind) ==
  /\ Len(middlewares) < MaxMiddlewares
  /\ middlewares' = add_middleware(middlewares, Middleware(kind, Len(middlewares) + 1))
  /\ UNCHANGED <<protocol_state, protocol_messages, emits, call>>
  /\ UNCHANGED <<agentVars, transportVars, wireVars, executorVars, detectVars,
               serverVars>>

\* for middleware in create_default_middleware_chain():
\*     protocol.add_middleware(middleware)
\* on an engine that has no middleware yet.
RECURSIVE AddAll(_, _)
AddAll(mws, chain) ==
  IF chain = <<>> THEN mws
  ELSE AddAll(add_middleware(mws, Middleware(Head(chain), Len(mws) + 1)), Tail(chain))

AddDefaultChain ==
  /\ middlewares = <<>>
  /\ middlewares' = AddAll(middlewares, create_default_middleware_chain)
  /\ UNCHANGED <<protocol_state, protocol_messages, emits, call>>
  /\ UNCHANGED <<agentVars, transportVars, wireVars, executorVars, detectVars,
               serverVars>>

\* await protocol.emit_event(event)
EmitEvent(ev) ==
  /\ emits < MaxEmits
  /\ LET e == [ev EXCEPT !.id = emits + 1]
         r == emit_event(middlewares, protocol_state, protocol_messages, e)
     IN /\ middlewares' = r.middlewares
        /\ protocol_state' = r.state
        /\ protocol_messages' = r.messages
        /\ call' = [op |-> "emit_event", event |-> e,
                    before |-> Seen(protocol_state, protocol_messages),
                    registered |-> Len(middlewares), raised |-> r.raised,
                    error |-> r.error, returned |-> r.returned, log |-> r.log]
  /\ emits' = emits + 1
  /\ UNCHANGED <<agentVars, transportVars, wireVars, executorVars, detectVars,
               serverVars>>

\* ---------------------------------------------------------------- transports
Transports == {"SSETransport", "WebSocketTransport", "HTTPTransport"}

\* A transport object: session is self.session; stream is self.response of
\* SSETransport and self.ws of WebSocketTransport.  Each is None, an open
\* aiohttp object or a closed one.
NewTransport == [session |-> "None", stream |-> "None"]

\* What the network does to a call that reaches it.
Network == {"ok", "fail"}
Statuses == {200, 201, 204, 404, 500}
Frames == {"event", "malformed", "end"}

\* What a call leaves and gives its caller: a value it returns, a value
\* it returns from its except clause (the exception is logged), or an
\* exception it raises.
Returned(t, value) == [t |-> t, result |-> value, error |-> "none", caught |-> FALSE]
Caught(t, value) == [t |-> t, result |-> value, error |-> "none", caught |-> TRUE]
Raises(t, error) == [t |-> t, result |-> "raised", error |-> error, caught |-> FALSE]

\* SSETransport.connect / WebSocketTransport.connect: a new session, then
\* session.get or session.ws_connect.
connect_stream(t, net) ==
  IF net = "ok" THEN Returned([session |-> "open", stream |-> "open"], "True")
  ELSE Caught([t EXCEPT !.session = "open"], "False")

\* HTTPTransport.connect
connect_http(t, net) ==
  IF net = "ok" THEN Returned([t EXCEPT !.session = "open"], "True")
  ELSE Caught(t, "False")

\* disconnect of the three classes: close the stream if there is one, then
\* the session if there is one; an exception of either close ends the call.
disconnect(t, net) ==
  IF t.stream = "None" /\ t.session = "None" THEN Returned(t, "True")
  ELSE IF net = "ok"
  THEN Returned([session |-> IF t.session = "None" THEN "None" ELSE "closed",
                 stream |-> IF t.stream = "None" THEN "None" ELSE "closed"], "True")
  ELSE Caught(t, "False")

\* What a send_event call leaves and gives its caller, and the requests
\* or frames of it that reached the remote.
Sent(t, value, requests) ==
  [t |-> t, result |-> value, error |-> "none", caught |-> FALSE,
   requests |-> requests]
SendCaught(t) ==
  [t |-> t, result |-> "False", error |-> "none", caught |-> TRUE, requests |-> 0]
SendRaises(t, error) ==
  [t |-> t, result |-> "raised", error |-> error, caught |-> FALSE, requests |-> 0]

\* Variant of sse_send_event: a transport that is not connected answers False.
sse_send_event_unconnected(t, net) ==
  IF t.stream = "None" THEN Sent(t, "False", 0)
  ELSE SendRaises(t, "NotImplementedError: SSE transport is receive-only")

\* SSETransport.send_event
sse_send_event(t, net) ==
  SendRaises(t, "NotImplementedError: SSE transport is receive-only")

\* Variant of ws_send_event: send_json outside the try block.
ws_send_event_unguarded(t, net) ==
  IF t.stream = "None" THEN Sent(t, "False", 0)
  ELSE IF t.stream = "open" /\ net = "ok" THEN Sent(t, "True", 1)
  ELSE SendRaises(t, "ConnectionResetError")

\* WebSocketTransport.send_event: send_json on a closed socket or on a
\* failing network raises, which the except clause turns into False.
ws_send_event(t, net) ==
  IF t.stream = "None" THEN Sent(t, "False", 0)
  ELSE IF t.stream = "open" /\ net = "ok" THEN Sent(t, "True", 1)
  ELSE SendCaught(t)

\* HTTPTransport.send_event: session.post on a closed session or on a
\* failing network raises; otherwise the remote answers with status.
http_send_event(t, net, status) ==
  IF t.session = "None" THEN Sent(t, "False", 0)
  ELSE IF t.session = "open" /\ net = "ok"
  THEN Sent(t, IF status = 200 THEN "True" ELSE "False", 1)
  ELSE SendCaught(t)

\* SSETransport.receive_event / WebSocketTransport.receive_event: the next
\* frame of the stream.  The end of the stream gives None; a frame that
\* does not validate, a closed stream and a failing network raise, which
\* the except clause turns into None.
receive_stream(t, net, frame) ==
  IF t.stream = "None" THEN Returned(t, "None")
  ELSE IF t.stream = "open" /\ net = "ok" /\ frame = "event" THEN Returned(t, "event")
  ELSE IF t.stream = "open" /\ net = "ok" /\ frame = "end" THEN Returned(t, "None")
  ELSE Caught(t, "None")

\* HTTPTransport.receive_event
http_receive_event(t) ==
  Raises(t, "NotImplementedError: HTTP transport requires webhook endpoint for receiving events")

NoOp ==
  [transport |-> "none", name |-> "none", before |-> NewTransport, net |-> "ok",
   status |-> 0, frame |-> "none", event |-> NotBuilt, result |-> "none",
   error |-> "none", caught |-> FALSE, requests |-> 0]

Done(k, name, net, r) ==
  /\ transport' = [transport EXCEPT ![k] = r.t]
  /\ op' = [NoOp EXCEPT !.transport = k, !.name = name, !.before = transport[k],
                        !.net = net, !.result = r.result, !.error = r.error,
                        !.caught = r.caught]

\* An event object is constructed.
Build(cls, delta) ==
  /\ built' = Construct(cls, delta)
  /\ UNCHANGED <<transport, op>>
  /\ UNCHANGED <<agentVars, engineVars, wireVars, executorVars, detectVars,
               serverVars>>

\* await transport.connect()
Connect(k) ==
  /\ \E net \in Network :
       Done(k, "connect", net,
            IF k = "HTTPTransport" THEN connect_http(transport[k], net)
            ELSE connect_stream(transport[k], net))
  /\ UNCHANGED built
  /\ UNCHANGED <<agentVars, engineVars, wireVars, executorVars, detectVars,
               serverVars>>

\* await transport.disconnect()
Disconnect(k) ==
  /\ \E net \in Network : Done(k, "disconnect", net, disconnect(transport[k], net))
  /\ UNCHANGED built
  /\ UNCHANGED <<agentVars, engineVars, wireVars, executorVars, detectVars,
               serverVars>>

\* await transport.send_event(event) with an event that was constructed.
SendEvent(k) ==
  /\ built.cls # "none" /\ ~built.raised
  /\ \E net \in Network, status \in Statuses :
       LET r == CASE k = "SSETransport" -> sse_send_event(transport[k], net)
                  [] k = "WebSocketTransport" -> ws_send_event(transport[k], net)
                  [] k = "HTTPTransport" -> http_send_event(transport[k], net, status)
       IN /\ transport' = [transport EXCEPT ![k] = r.t]
          /\ op' = [NoOp EXCEPT !.transport = k, !.name = "send_event",
                                !.before = transport[k], !.net = net,
                                !.status = IF k = "HTTPTransport" /\ r.requests = 1
                                           THEN status ELSE 0,
                                !.event = built, !.result = r.result,
                                !.error = r.error, !.caught = r.caught,
                                !.requests = r.requests]
  /\ UNCHANGED built
  /\ UNCHANGED <<agentVars, engineVars, wireVars, executorVars, detectVars,
               serverVars>>

\* await transport.receive_event()
ReceiveEvent(k) ==
  /\ \E net \in Network, frame \in Frames :
       LET r == IF k = "HTTPTransport" THEN http_receive_event(transport[k])
                ELSE receive_stream(transport[k], net, frame)
       IN /\ transport' = [transport EXCEPT ![k] = r.t]
          /\ op' = [NoOp EXCEPT !.transport = k, !.name = "receive_event",
                                !.before = transport[k], !.net = net,
                                !.frame = IF r.result = "raised" THEN "none" ELSE frame,
                                !.result = r.result, !.error = r.error,
                                !.caught = r.caught]
  /\ UNCHANGED built
  /\ UNCHANGED <<agentVars, engineVars, wireVars, executorVars, detectVars,
               serverVars>>

\* ---------------------------------------------------------------- wire encoding
\* A field value is a string.  PyNone is Python's None, JsonNull the null
\* of a JSON text, Now the value of BaseEvent's timestamp default_factory.
PyNone == "None"
JsonNull == "null"
Now == "now"

\* class EventType
EventType ==
  { "TEXT_MESSAGE_START", "TEXT_MESSAGE_CONTENT", "TEXT_MESSAGE_END",
    "TOOL_CALL_START", "TOOL_CALL_ARGS", "TOOL_CALL_END", "TOOL_CALL_RESULT",
    "STATE_SNAPSHOT", "STATE_DELTA", "MESSAGES_SNAPSHOT",
    "RUN_STARTED", "RUN_FINISHED", "RUN_ERROR", "STEP_STARTED", "STEP_FINISHED",
    "RAW", "CUSTOM" }

\* The fields every event class inherits from BaseEvent beside type.
BaseFields == {"timestamp", "raw_event"}

\* A class of events: the value of its type field ("any" for BaseEvent,
\* whose type is any member of EventType), the fields it requires and the
\* fields it declares with the default None.
EventClass(type, required, optional) ==
  [type |-> type, required |-> required, optional |-> optional]

\* The event classes of protocol.py and of events.py.
EventClasses ==
  [ BaseEvent |-> EventClass("any", {}, {}),
    TextMessageStartEvent |-> EventClass("TEXT_MESSAGE_START", {"message_id", "role"}, {}),
    TextMessageContentEvent |-> EventClass("TEXT_MESSAGE_CONTENT", {"message_id", "delta"}, {}),
    TextMessageEndEvent |-> EventClass("TEXT_MESSAGE_END", {"message_id"}, {}),
    ToolCallStartEvent |->
      EventClass("TOOL_CALL_START", {"tool_call_id", "tool_call_name"}, {"parent_message_id"}),
    ToolCallArgsEvent |-> EventClass("TOOL_CALL_ARGS", {"tool_call_id", "delta"}, {}),
    ToolCallEndEvent |-> EventClass("TOOL_CALL_END", {"tool_call_id"}, {}),
    ToolCallResultEvent |->
      EventClass("TOOL_CALL_RESULT", {"message_id", "tool_call_id", "content"}, {"role"}),
    StateSnapshotEvent |-> EventClass("STATE_SNAPSHOT", {"snapshot"}, {}),
    StateDeltaEvent |-> EventClass("STATE_DELTA", {"delta"}, {}),
    MessagesSnapshotEvent |-> EventClass("MESSAGES_SNAPSHOT", {"messages"}, {}),
    RunStartedEvent |-> EventClass("RUN_STARTED", {"thread_id", "run_id"}, {}),
    RunFinishedEvent |-> EventClass("RUN_FINISHED", {"thread_id", "run_id"}, {"result"}),
    RunErrorEvent |-> EventClass("RUN_ERROR", {"message"}, {"code"}),
    StepStartedEvent |-> EventClass("STEP_STARTED", {"step_name"}, {}),
    StepFinishedEvent |-> EventClass("STEP_FINISHED", {"step_name"}, {}),
    RawEvent |-> EventClass("RAW", {"event"}, {"source"}),
    CustomEvent |-> EventClass("CUSTOM", {"name", "value"}, {}) ]

Variants == DOMAIN EventClasses \ {"BaseEvent"}

\* _EVENT_TYPE_MAP
EVENT_TYPE_MAP ==
  [ t \in EventType |-> CHOOSE cls \in Variants : EventClasses[cls].type = t ]

\* The fields annotated Any, which accept None as a value.
AnyFields == {"raw_event", "result", "event", "value"}

VariantFields(cls) == EventClasses[cls].required \cup EventClasses[cls].optional
FieldsOf(cls) == {"type"} \cup BaseFields \cup VariantFields(cls)

\* An event object: its class and the values of its fields.
WireEvent(cls, fields) == [cls |-> cls, fields |-> fields]
NoFields == [f \in {} |-> PyNone]
NoWireEvent == WireEvent("none", NoFields)

\* The value a test gives a field it sets.
ValueOf(f) == IF f = "timestamp" THEN "1700000000" ELSE "v"

\* The events that are encoded: of every variant, with every choice of
\* the fields that are left without a value.
WireEvents ==
  { WireEvent(cls,
              [f \in FieldsOf(cls) |->
                 IF f = "type" THEN EventClasses[cls].type
                 ELSE IF f \in unset THEN PyNone ELSE ValueOf(f)]) :
      cls \in Variants, unset \in SUBSET (BaseFields \cup {"code", "result",
                                           "parent_message_id", "source", "role"}) }

\* BaseModel.model_dump: the fields of the object as a dict, without those
\* that are None under exclude_none.
model_dump(ev, exclude_none) ==
  [f \in { g \in DOMAIN ev.fields : ~exclude_none \/ ev.fields[g] # PyNone } |->
     ev.fields[f]]

\* json.dumps and json.loads of a dict of strings: None is written null.
json_dumps(d) == [f \in DOMAIN d |-> IF d[f] = PyNone THEN JsonNull ELSE d[f]]
json_loads(text) == [f \in DOMAIN text |-> IF text[f] = JsonNull THEN PyNone ELSE text[f]]

\* A frame on the wire: the text before the JSON object and the object.
Frame(prefix, text) == [prefix |-> prefix, text |-> text]
NoFrame == Frame("none", NoFields)

\* EventEncoder.encode of src/agent_core/encoder.py
encode(ev) == Frame("data: ", json_dumps(model_dump(ev, FALSE)))

\* EventEncoder._encode_sse and _encode_json of src/agent_core/agui/encoder.py
encode_sse(ev) == Frame("data: ", json_dumps(model_dump(ev, TRUE)))
encode_json(ev) == Frame("", json_dumps(model_dump(ev, TRUE)))

\* The values of EventEncoder.accept a client asks for.
Accepts == {"text/event-stream", "application/json", "text/html"}

\* EventEncoder.encode of src/agent_core/agui/encoder.py
agui_encode(accept, ev) ==
  IF accept = "application/json" THEN encode_json(ev) ELSE encode_sse(ev)

\* What a decoding gives: an event object or the exception it raises.
Decoded(ev) == [raised |-> FALSE, error |-> "none", event |-> ev]
DecodeRaises(error) == [raised |-> TRUE, error |-> error, event |-> NoWireEvent]

\* cls.model_validate(data) for a class of protocol.py: the type must be
\* the one of the class, the required fields must be there, a field that
\* is not annotated Any or Optional must not be None, unknown keys are
\* ignored, a missing optional field takes its default, and
\* TextMessageContentEvent validates its delta.
model_validate(cls, data) ==
  LET c == EventClasses[cls]
      type_ok == /\ "type" \in DOMAIN data
                 /\ IF c.type = "any" THEN data["type"] \in EventType
                    ELSE data["type"] = c.type
      required_ok == \A f \in c.required :
                        /\ f \in DOMAIN data
                        /\ data[f] = PyNone => f \in AnyFields
      Default(f) == IF f = "timestamp" THEN Now ELSE PyNone
  IN  IF ~type_ok \/ ~required_ok THEN DecodeRaises("ValidationError")
      ELSE IF cls = "TextMessageContentEvent" /\ Len(data["delta"]) = 0
      THEN DecodeRaises("ValidationError")
      ELSE Decoded(WireEvent(cls, [f \in FieldsOf(cls) |->
                                     IF f \in DOMAIN data THEN data[f] ELSE Default(f)]))

\* CustomEvent.from_dict
from_dict(data) ==
  IF "type" \notin DOMAIN data THEN DecodeRaises("KeyError")
  ELSE IF data["type"] \notin EventType THEN DecodeRaises("ValueError")
  ELSE model_validate(IF data["type"] \in DOMAIN EVENT_TYPE_MAP
                      THEN EVENT_TYPE_MAP[data["type"]] ELSE "RawEvent", data)

\* Objects a newer or a foreign peer sends.
ForeignObjects ==
  { [type |-> "FUTURE_EVENT", name |-> "v"],
    [name |-> "v", value |-> "v"],
    [type |-> "TEXT_MESSAGE_CONTENT", message_id |-> "v", delta |-> ""] }

\* The dicts from_dict is called with.
WireObjects ==
  { json_loads(encode_json(ev).text) : ev \in WireEvents } \cup ForeignObjects

\* The two transports that receive.
StreamTransports == {"SSETransport", "WebSocketTransport"}
StreamStates == { [session |-> s, stream |-> s] : s \in {"None", "open", "closed"} }

\* SSETransport.receive_event / WebSocketTransport.receive_event with the
\* frame f as the next one of the stream: the SSE transport skips a line
\* that does not start with "data: " and reaches the end of the stream, the
\* WebSocket transport parses the whole frame as JSON; both validate the
\* object against BaseEvent.
receive_event(k, t, net, f) ==
  LET framed == IF k = "SSETransport" THEN f.prefix = "data: " ELSE f.prefix = ""
      d == model_validate("BaseEvent", json_loads(f.text))
      r == receive_stream(t, net,
                          IF k = "SSETransport" /\ ~framed THEN "end"
                          ELSE IF framed /\ ~d.raised THEN "event" ELSE "malformed")
  IN  [result |-> r.result, error |-> r.error, caught |-> r.caught,
       event |-> IF r.result = "event" THEN d.event ELSE NoWireEvent]

\* The last call of the codec: what was encoded, the frame, what decoded it
\* and what came out.
NoWire ==
  [op |-> "none", encoder |-> "none", accept |-> "none", event |-> NoWireEvent,
   frame |-> NoFrame, transport |-> "none", before |-> NewTransport, net |-> "ok",
   result |-> "none", error |-> "none", caught |-> FALSE, decoded |-> NoWireEvent]

\* EventEncoder().encode(event) of src/agent_core/encoder.py
Encode(ev) ==
  /\ wire' = [NoWire EXCEPT !.op = "encode", !.encoder = "agent_core.encoder",
                             !.event = ev, !.frame = encode(ev)]
  /\ UNCHANGED <<agentVars, engineVars, transportVars, executorVars, detectVars,
               serverVars>>

\* EventEncoder(accept=accept).encode(event) of src/agent_core/agui/encoder.py
AguiEncode(accept, ev) ==
  /\ wire' = [NoWire EXCEPT !.op = "encode", !.encoder = "agent_core.agui.encoder",
                             !.accept = accept, !.event = ev,
                             !.frame = agui_encode(accept, ev)]
  /\ UNCHANGED <<agentVars, engineVars, transportVars, executorVars, detectVars,
               serverVars>>

\* CustomEvent.from_dict(data)
FromDict(data) ==
  /\ LET d == from_dict(data)
     IN  wire' = [NoWire EXCEPT !.op = "from_dict", !.frame = Frame("", json_dumps(data)),
                                !.result = IF d.raised THEN "raised" ELSE "event",
                                !.error = d.error, !.decoded = d.event]
  /\ UNCHANGED <<agentVars, engineVars, transportVars, executorVars, detectVars,
               serverVars>>

\* await transport.receive_event() where the remote has sent the frame
\* that was encoded last.
Receive(k) ==
  /\ wire.op = "encode"
  /\ \E t \in StreamStates, net \in Network :
       LET r == receive_event(k, t, net, wire.frame)
       IN  wire' = [wire EXCEPT !.op = "receive_event", !.transport = k, !.before = t,
                                !.net = net, !.result = r.result, !.error = r.error,
                                !.caught = r.caught, !.decoded = r.event]
  /\ UNCHANGED <<agentVars, engineVars, transportVars, executorVars, detectVars,
               serverVars>>

\* ---------------------------------------------------------------- process execution
\* The calls of one Executor of src/agent_core/executor.py (execute_step,
\* cleanup) and of one Executor of src/agent-core/executor.py
\* (execute_code), each call in a task of its own.  A call spawns at most
\* one child through _managed_process or create_subprocess_exec; the child
\* of task c is children[c].
Tasks == 1..NumTasks

\* A PlanStep as execute_step reads it: required_ok, every tool of
\* required_tools passes verify_runtime; has_param, params has the key the
\* action reads; script_exists, ext_ok and spawn_ok, what os.path.exists,
\* _get_runtime_for_script and create_subprocess_exec find for the script.
ExecStep(action, required_ok, has_param, script_exists, ext_ok, spawn_ok) ==
  [action |-> action, required_ok |-> required_ok, has_param |-> has_param,
   script_exists |-> script_exists, ext_ok |-> ext_ok, spawn_ok |-> spawn_ok]

NoExecStep == ExecStep("none", TRUE, TRUE, TRUE, TRUE, TRUE)

ExecSteps ==
  { ExecStep("execute_script", TRUE, TRUE, TRUE, TRUE, TRUE),
    ExecStep("execute_script", FALSE, TRUE, TRUE, TRUE, TRUE),
    ExecStep("execute_script", TRUE, FALSE, TRUE, TRUE, TRUE),
    ExecStep("execute_script", TRUE, TRUE, FALSE, TRUE, TRUE),
    ExecStep("execute_script", TRUE, TRUE, TRUE, FALSE, TRUE),
    ExecStep("execute_script", TRUE, TRUE, TRUE, TRUE, FALSE),
    ExecStep("execute_in_ubuntu", TRUE, TRUE, TRUE, TRUE, TRUE),
    ExecStep("python", TRUE, TRUE, TRUE, TRUE, TRUE),
    ExecStep("deploy", TRUE, TRUE, TRUE, TRUE, TRUE) }

\* RuntimeManager.runtimes of src/agent-core/executor.py, with the entry
\* test_runtime_errors adds, and the paths that exist on the host.
Runtimes ==
  [python |-> "/usr/bin/python3", node |-> "/usr/bin/node", bash |-> "/bin/bash",
   test |-> "/nonexistent"]
ExistingPaths == {"/usr/bin/python3", "/bin/bash"}

\* The runtime argument of execute_code.
RuntimeNames == {"python", "node", "invalid", "test"}
NoRuntime == "none"

\* The code argument of execute_code: the n-th of the texts the calls
\* are made with, and the two texts of calls that may share one.
CodeText(n) == <<"print", n>>
Codes == {CodeText(1), CodeText(2)}
NoFile == <<CodeText(0), "none">>

\* What a finished call gave its caller: an ExecutionResult, the dict of
\* execute_code, or an exception.
NoExecResult == [kind |-> "none", success |-> FALSE, status |-> "none", error |-> ""]
ExecutionResult(success, error) ==
  [kind |-> "ExecutionResult", success |-> success, status |-> "none", error |-> error]
CodeResult(status, error) ==
  [kind |-> "dict", success |-> status = "success", status |-> status, error |-> error]
Propagates(error) ==
  [kind |-> "raised", success |-> FALSE, status |-> "none", error |-> error]

\* A child process: status none (not spawned), running or exited; its
\* returncode once it has exited; handled, what the call that owns it did
\* to it after it left the body (terminate, wait, kill); cleanup_term,
\* cleanup() sent it terminate; left, whether it was alive when the call
\* left the body; removals, how often it was removed from
\* current_processes.
NoChild ==
  [status |-> "none", returncode |-> 0, handled |-> <<>>, cleanup_term |-> FALSE,
   left |-> "no", removals |-> 0]

\* code_file is the local variable of execute_code, NoFile while the name
\* is not bound.
NoTask ==
  [kind |-> "none", pc |-> "idle", step |-> NoExecStep, runtime |-> NoRuntime,
   code_file |-> NoFile, overran |-> FALSE, result |-> NoExecResult]

Alive(p) == children[p].status = "running"

\* list.remove(x): the list without the first x.
remove(list, x) ==
  LET i == CHOOSE j \in 1..Len(list) :
              list[j] = x /\ \A k \in 1..(j - 1) : list[k] # x
  IN  SubSeq(list, 1, i - 1) \o SubSeq(list, i + 1, Len(list))

\* Variant of untrack: the removal stands after the yield, not in finally.
untrack_on_success(list, p, exc) == IF exc = "none" THEN remove(list, p) ELSE list

\* _managed_process, first statement of finally; exc is the exception the
\* body is left with.
untrack(list, p, exc) == remove(list, p)

\* execute_step and execute_script up to the spawn: the text of the
\* exception raised there, or "spawn".
before_spawn(s) ==
  IF ~s.required_ok THEN "Required runtime is not available"
  ELSE IF s.action = "execute_script"
  THEN IF ~s.has_param THEN "'script'"
       ELSE IF ~s.script_exists THEN "Script not found"
       ELSE IF ~s.ext_ok THEN "Unsupported script type"
       ELSE IF ~s.spawn_ok THEN "[Errno 13] Permission denied"
       ELSE "spawn"
  ELSE IF s.action = "execute_in_ubuntu"
  THEN IF ~s.has_param THEN "'command'"
       ELSE "Ubuntu command execution failed: object can't be used in 'await' expression"
  ELSE IF s.action \in {"python", "node"}
  THEN "'Executor' object has no attribute '_create_temp_script'"
  ELSE "Unknown action type"

\* Variant of step_failed: the exception leaves execute_step.
step_failed_reraising(error) == Propagates(error)

\* execute_step, the except Exception clause.
step_failed(error) == ExecutionResult(FALSE, error)

\* RuntimeManager.get_runtime_path: the path, or the text of the
\* ValueError it raises.
get_runtime_path(runtime) ==
  IF runtime \notin DOMAIN Runtimes \/ Runtimes[runtime] \notin ExistingPaths
  THEN [raised |-> TRUE, value |-> "Runtime not found"]
  ELSE [raised |-> FALSE, value |-> Runtimes[runtime]]

\* RuntimeManager.prepare_code_file: the file code_<hash(code)><ext> of
\* temp_dir, and the directory after write_text.
prepare_code_file(dir, code, runtime) ==
  LET extensions == [python |-> ".py", node |-> ".js", bash |-> ".sh"]
      ext == IF runtime \in DOMAIN extensions THEN extensions[runtime] ELSE ".txt"
      temp_file == <<code, ext>>
  IN [file |-> temp_file, dir |-> dir \cup {temp_file}]

\* Variant of code_finally: the file is removed on the way of a returned
\* dict with status success only.
code_finally_on_success(dir, file, r) ==
  IF r.status = "success"
  THEN [result |-> r, dir |-> dir \ {file}]
  ELSE [result |-> r, dir |-> dir]

\* execute_code, the finally clause for a call that bound code_file and
\* is left with r (a dict or an exception): code_file.unlink(), whose
\* FileNotFoundError for a file that is gone replaces r.
code_finally(dir, file, r) ==
  IF file \in dir
  THEN [result |-> r, dir |-> dir \ {file}]
  ELSE [result |-> Propagates("FileNotFoundError"), dir |-> dir]

\* Variant of code_failed: the exception leaves execute_code.
code_failed_reraising(error) == Propagates("ValueError")

\* execute_code, the except Exception clause.
code_failed(error) == CodeResult("error", error)

Spawn(c) ==
  children' = [children EXCEPT ![c] = [NoChild EXCEPT !.status = "running"]]

Finished(c, r) ==
  [tasks[c] EXCEPT !.pc = IF r.kind = "raised" THEN "raised" ELSE "returned",
                   !.result = r]

\* await executor.execute_step(step) up to its first suspension with a
\* child: it returns at once on an exception before the spawn, and else
\* spawns the child, appends it to current_processes and awaits
\* proc.communicate().
StartStep(c, s) ==
  /\ tasks[c].pc = "idle"
  /\ LET t == [tasks[c] EXCEPT !.kind = "execute_step", !.step = s]
     IN  IF before_spawn(s) # "spawn"
         THEN /\ tasks' = [tasks EXCEPT ![c] =
                             [t EXCEPT !.pc = "returned",
                                       !.result = step_failed(before_spawn(s))]]
              /\ UNCHANGED <<children, current_processes>>
         ELSE /\ tasks' = [tasks EXCEPT ![c] = [t EXCEPT !.pc = "communicate"]]
              /\ Spawn(c)
              /\ current_processes' = Append(current_processes, c)
  /\ UNCHANGED temp_dir
  /\ UNCHANGED <<agentVars, engineVars, transportVars, wireVars, detectVars,
               serverVars>>

\* await executor.execute_code(code, runtime=runtime) up to its first
\* suspension with a child: get_runtime_path, prepare_code_file,
\* create_subprocess_exec, then wait_for(process.communicate(), timeout).
StartCode(c, code, runtime, spawn_ok) ==
  /\ tasks[c].pc = "idle"
  /\ LET t == [tasks[c] EXCEPT !.kind = "execute_code", !.runtime = runtime]
         path == get_runtime_path(runtime)
         prepared == prepare_code_file(temp_dir, code, runtime)
         left == code_finally(prepared.dir, prepared.file,
                              code_failed("[Errno 13] Permission denied"))
     IN  IF path.raised
         THEN /\ tasks' = [tasks EXCEPT ![c] =
                             [t EXCEPT !.pc = "returned",
                                       !.result = code_failed(path.value)]]
              /\ UNCHANGED <<children, temp_dir>>
         ELSE IF ~spawn_ok
         THEN /\ tasks' = [tasks EXCEPT ![c] =
                             [t EXCEPT !.pc = "returned",
                                       !.code_file = prepared.file,
                                       !.result = left.result]]
              /\ temp_dir' = left.dir
              /\ UNCHANGED children
         ELSE /\ tasks' = [tasks EXCEPT ![c] =
                             [t EXCEPT !.pc = "communicate",
                                       !.code_file = prepared.file]]
              /\ temp_dir' = prepared.dir
              /\ Spawn(c)
  /\ UNCHANGED current_processes
  /\ UNCHANGED <<agentVars, engineVars, transportVars, wireVars, detectVars,
               serverVars>>

\* The child ends by itself.
ChildExits(p) ==
  /\ Alive(p)
  /\ \E code \in {0, 1} :
       children' = [children EXCEPT ![p].status = "exited", ![p].returncode = code]
  /\ UNCHANGED <<tasks, current_processes, temp_dir>>
  /\ UNCHANGED <<agentVars, engineVars, transportVars, wireVars, detectVars,
               serverVars>>

Killed(p) == \E i \in DOMAIN children[p].handled : children[p].handled[i] = "kill"
Terminated(p) ==
  \/ children[p].cleanup_term
  \/ \E i \in DOMAIN children[p].handled : children[p].handled[i] = "terminate"

\* The child ends by a signal it was sent: SIGKILL always can end it,
\* SIGTERM ends it unless it ignores the signal, and then this step is
\* never taken.
ChildDies(p) ==
  /\ Alive(p)
  /\ Killed(p) \/ Terminated(p)
  /\ children' = [children EXCEPT ![p].status = "exited",
                                  ![p].returncode = IF Killed(p) THEN -9 ELSE -15]
  /\ UNCHANGED <<tasks, current_processes, temp_dir>>
  /\ UNCHANGED <<agentVars, engineVars, transportVars, wireVars, detectVars,
               serverVars>>

\* proc.communicate() returns for a child that has ended.  execute_script
\* raises for a returncode other than 0 and decodes the output; the body
\* is left, finally removes the child and sends nothing because returncode
\* is set; execute_step returns the result.  execute_code classifies the
\* returncode in its dict.
Communicated(c) ==
  /\ tasks[c].pc = "communicate"
  /\ children[c].status = "exited"
  /\ \E decodes \in BOOLEAN :
       LET error == IF children[c].returncode # 0 THEN "Script execution failed: "
                    ELSE IF ~decodes THEN "'utf-8' codec can't decode byte"
                    ELSE "none"
       IN  IF tasks[c].kind = "execute_step"
           THEN /\ tasks' = [tasks EXCEPT ![c] =
                               Finished(c, IF error = "none" THEN ExecutionResult(TRUE, "None")
                                           ELSE step_failed(error))]
                /\ current_processes' = untrack(current_processes, c, error)
                /\ children' = [children EXCEPT ![c].left = "exited",
                                                ![c].removals = @ + 1]
                /\ UNCHANGED temp_dir
           ELSE LET left == code_finally(temp_dir, tasks[c].code_file,
                               IF ~decodes
                               THEN code_failed("'utf-8' codec can't decode byte")
                               ELSE CodeResult(IF children[c].returncode = 0
                                               THEN "success" ELSE "error", "None"))
                IN /\ tasks' = [tasks EXCEPT ![c] = Finished(c, left.result)]
                   /\ temp_dir' = left.dir
                   /\ children' = [children EXCEPT ![c].left = "exited"]
                   /\ UNCHANGED current_processes
  /\ UNCHANGED <<agentVars, engineVars, transportVars, wireVars, detectVars,
               serverVars>>

\* The configured time (max_execution_time of execute_step, timeout of
\* execute_code) passes while the child runs.  Nothing in execute_step or
\* execute_script reads max_execution_time: the call goes on waiting.
\* wait_for in execute_code raises TimeoutError: process.kill(), and the
\* dict with status timeout is returned.
TimeoutElapses(c) ==
  /\ tasks[c].pc = "communicate"
  /\ ~tasks[c].overran
  /\ Alive(c)
  /\ IF tasks[c].kind = "execute_step"
     THEN /\ tasks' = [tasks EXCEPT ![c].overran = TRUE]
          /\ UNCHANGED <<children, temp_dir>>
     ELSE LET left == code_finally(temp_dir, tasks[c].code_file,
                                   CodeResult("timeout", "Execution timed out"))
          IN /\ tasks' = [tasks EXCEPT ![c] =
                            [Finished(c, left.result) EXCEPT !.overran = TRUE]]
             /\ temp_dir' = left.dir
             /\ children' = [children EXCEPT ![c].left = "alive",
                                             ![c].handled = Append(@, "kill")]
  /\ UNCHANGED current_processes
  /\ UNCHANGED <<agentVars, engineVars, transportVars, wireVars, detectVars,
               serverVars>>

\* The task is cancelled while it awaits communicate: CancelledError is
\* raised in the body.  _managed_process removes the child and, if its
\* returncode is None, sends terminate and awaits wait_for(proc.wait(), 5.0).
\* execute_code has no handler for it: the exception leaves the call.
Cancel(c) ==
  /\ tasks[c].pc = "communicate"
  /\ IF tasks[c].kind = "execute_step"
     THEN /\ current_processes' = untrack(current_processes, c, "CancelledError")
          /\ IF Alive(c)
             THEN /\ tasks' = [tasks EXCEPT ![c].pc = "grace"]
                  /\ children' = [children EXCEPT ![c].left = "alive",
                                                  ![c].removals = @ + 1,
                                                  ![c].handled = Append(@, "terminate")]
             ELSE /\ tasks' = [tasks EXCEPT ![c] = Finished(c, Propagates("CancelledError"))]
                  /\ children' = [children EXCEPT ![c].left = "exited",
                                                  ![c].removals = @ + 1]
          /\ UNCHANGED temp_dir
     ELSE LET left == code_finally(temp_dir, tasks[c].code_file,
                                   Propagates("CancelledError"))
          IN /\ tasks' = [tasks EXCEPT ![c] = Finished(c, left.result)]
             /\ temp_dir' = left.dir
             /\ children' = [children EXCEPT ![c].left =
                                                IF Alive(c) THEN "alive" ELSE "exited"]
             /\ UNCHANGED current_processes
  /\ UNCHANGED <<agentVars, engineVars, transportVars, wireVars, detectVars,
               serverVars>>

\* wait_for(proc.wait(), 5.0) returns: the child has ended.
GraceWaitDone(c) ==
  /\ tasks[c].pc = "grace"
  /\ children[c].status = "exited"
  /\ tasks' = [tasks EXCEPT ![c] = Finished(c, Propagates("CancelledError"))]
  /\ children' = [children EXCEPT ![c].handled = Append(@, "wait")]
  /\ UNCHANGED <<current_processes, temp_dir>>
  /\ UNCHANGED <<agentVars, engineVars, transportVars, wireVars, detectVars,
               serverVars>>

\* wait_for(proc.wait(), 5.0) raises TimeoutError: proc.kill().
GraceTimeout(c) ==
  /\ tasks[c].pc = "grace"
  /\ Alive(c)
  /\ tasks' = [tasks EXCEPT ![c] = Finished(c, Propagates("CancelledError"))]
  /\ children' = [children EXCEPT ![c].handled = @ \o <<"wait", "kill">>]
  /\ UNCHANGED <<current_processes, temp_dir>>
  /\ UNCHANGED <<agentVars, engineVars, transportVars, wireVars, detectVars,
               serverVars>>

\* Executor.cleanup, the body of its loop for a child whose returncode is
\* None: proc.terminate().
cleanup_signals(child) == [child EXCEPT !.cleanup_term = TRUE]

\* executor.cleanup()
Cleanup ==
  /\ children' = [p \in Tasks |->
                    IF Alive(p) /\ \E i \in DOMAIN current_processes : current_processes[i] = p
                    THEN cleanup_signals(children[p]) ELSE children[p]]
  /\ UNCHANGED <<tasks, current_processes, temp_dir>>
  /\ UNCHANGED <<agentVars, engineVars, transportVars, wireVars, detectVars,
               serverVars>>

\* ---------------------------------------------------------------- runtime detection
\* A code text is the concatenation of at most MaxPieces of these pieces.
Pieces ==
  { "#!/usr/bin/env python", "#!/usr/bin/env node", "#!/bin/bash", "#!/bin/sh",
    "import os", "from os import path", "require('fs')", "module.exports = {}",
    ";", "print('Python detected')", "console.log('Node detected')",
    "echo 'Bash detected'", "main.py", "index.js", "run.sh" }

CodeTexts == UNION { [1..n -> Pieces] : n \in 0..MaxPieces }

\* The strings detect_runtime looks for that a piece begins with, ends
\* with and contains.
PrefixesOf(piece) ==
  IF piece \in {"#!/usr/bin/env python", "#!/usr/bin/env node", "#!/bin/bash"}
  THEN {piece} ELSE {}
SuffixesOf(piece) ==
  CASE piece = "main.py" -> {".py"}
    [] piece = "index.js" -> {".js"}
    [] piece = "run.sh" -> {".sh"}
    [] OTHER -> {}
PatternsIn(piece) ==
  CASE piece = "import os" -> {"import "}
    [] piece = "from os import path" -> {"from ", "import "}
    [] piece = "require('fs')" -> {"require("}
    [] piece = "module.exports = {}" -> {"module.exports"}
    [] piece \in {"#!/bin/bash", "#!/bin/sh"} -> {"#!/bin/"}
    [] piece = ";" -> {";"}
    [] OTHER -> {}

\* code.startswith(x), code.endswith(x), x in code
startswith(code, x) == code # <<>> /\ x \in PrefixesOf(code[1])
endswith(code, x) == code # <<>> /\ x \in SuffixesOf(code[Len(code)])
contains(code, x) == \E i \in DOMAIN code : x \in PatternsIn(code[i])

\* RuntimeManager.detect_runtime
detect_runtime(code) ==
  IF startswith(code, "#!/usr/bin/env python") \/ endswith(code, ".py") THEN "python"
  ELSE IF startswith(code, "#!/usr/bin/env node") \/ endswith(code, ".js") THEN "node"
  ELSE IF startswith(code, "#!/bin/bash") \/ endswith(code, ".sh") THEN "bash"
  ELSE IF contains(code, "import ") \/ contains(code, "from ") THEN "python"
  ELSE IF contains(code, "require(") \/ contains(code, "module.exports") THEN "node"
  ELSE IF contains(code, "#!/bin/") \/ contains(code, ";") THEN "bash"
  ELSE "python"

NoDetection == [code |-> <<>>, runtime |-> "none"]

\* runtime_manager.detect_runtime(code)
DetectRuntime(code) ==
  /\ detected = NoDetection
  /\ detected' = [code |-> code, runtime |-> detect_runtime(code)]
  /\ UNCHANGED <<agentVars, engineVars, transportVars, wireVars, executorVars,
                 serverVars>>

\* ---------------------------------------------------------------- server
\* The WebSocket endpoint of src/agent-core/agui/server.py: one call of
\* websocket_endpoint per socket, all in one event loop, and the
\* ConnectionManager they share.
Sockets == 1..NumSockets

\* What receive_json finds: the client has gone (WebSocketDisconnect), a
\* text frame that is not JSON (JSONDecodeError), an event the chain of
\* the engine rejects (ValueError of EventValidationMiddleware), an event
\* that is processed.
ReceivedFrames == {"disconnect", "not_json", "rejected", "event"}

\* A call of websocket_endpoint: pc idle (not called yet), receive
\* (awaiting receive_json), broadcast (awaiting a send_json of
\* manager.broadcast), ended; i, the index of the for loop of broadcast;
\* ended_by, the exception the call ended with; sent_to_ended, a send_json
\* of this call had the socket of an ended call as its target.
NoHandler == [pc |-> "idle", i |-> 0, ended_by |-> "none", sent_to_ended |-> FALSE]

Running(s) == handlers[s].pc \in {"receive", "broadcast"}

Ended(h, exc) == [h EXCEPT !.pc = "ended", !.i = 0, !.ended_by = exc]

\* ConnectionManager.connect, after websocket.accept() returned
manager_connect(connections, websocket) == Append(connections, websocket)

\* ConnectionManager.disconnect
manager_disconnect(connections, websocket) == remove(connections, websocket)

\* websocket_endpoint is called for a new socket: manager.connect accepts
\* it and appends it, or accept raises and the call ends.
Accept(s) ==
  /\ handlers[s].pc = "idle"
  /\ \E accepted \in BOOLEAN :
       IF accepted
       THEN /\ active_connections' = manager_connect(active_connections, s)
            /\ handlers' = [handlers EXCEPT ![s].pc = "receive"]
       ELSE /\ handlers' = [handlers EXCEPT ![s] = Ended(@, "RuntimeError")]
            /\ UNCHANGED active_connections
  /\ UNCHANGED <<agentVars, engineVars, transportVars, wireVars, executorVars,
                 detectVars>>

\* await websocket.receive_json() returns or raises; from_dict and
\* emit_event follow; only WebSocketDisconnect is caught.
ReceiveJson(s, frame) ==
  /\ handlers[s].pc = "receive"
  /\ CASE frame = "disconnect" ->
            /\ active_connections' = manager_disconnect(active_connections, s)
            /\ handlers' = [handlers EXCEPT ![s] = Ended(@, "WebSocketDisconnect")]
       [] frame = "not_json" ->
            /\ handlers' = [handlers EXCEPT ![s] = Ended(@, "JSONDecodeError")]
            /\ UNCHANGED active_connections
       [] frame = "rejected" ->
            /\ handlers' = [handlers EXCEPT ![s] = Ended(@, "ValueError")]
            /\ UNCHANGED active_connections
       [] frame = "event" ->
            /\ handlers' = [handlers EXCEPT ![s].pc = "broadcast", ![s].i = 1]
            /\ UNCHANGED active_connections
  /\ UNCHANGED <<agentVars, engineVars, transportVars, wireVars, executorVars,
                 detectVars>>

\* The exceptions send_json raises for a connection that is closed, by
\* the version of the WebSocket library.
SendErrors == {"RuntimeError", "WebSocketDisconnect"}

\* manager.broadcast, one round of its for loop: await
\* connection.send_json(...) for the connection at the index of the
\* iterator.  A send to the socket of an ended call raises; RuntimeError
\* leaves websocket_endpoint, WebSocketDisconnect is caught there and the
\* sender's own socket is removed.  After the last connection the call
\* awaits receive_json again.
SendJson(s) ==
  /\ handlers[s].pc = "broadcast"
  /\ LET i == handlers[s].i
         connection == active_connections[i]
     IN IF i > Len(active_connections)
        THEN /\ handlers' = [handlers EXCEPT ![s].pc = "receive", ![s].i = 0]
             /\ UNCHANGED active_connections
        ELSE IF Running(connection)
        THEN /\ handlers' = [handlers EXCEPT ![s].i = i + 1]
             /\ UNCHANGED active_connections
        ELSE \E exc \in SendErrors :
               /\ handlers' = [handlers EXCEPT ![s] =
                                 [Ended(@, exc) EXCEPT !.sent_to_ended = TRUE]]
               /\ active_connections' =
                    IF exc = "WebSocketDisconnect"
                    THEN manager_disconnect(active_connections, s)
                    ELSE active_connections
  /\ UNCHANGED <<agentVars, engineVars, transportVars, wireVars, executorVars,
                 detectVars>>

\* ---------------------------------------------------------------- specifications
\* AGUIProtocol(): no middleware, empty state and messages.
NewEngine ==
  /\ middlewares = <<>>
  /\ protocol_state = EmptyDict
  /\ protocol_messages = <<>>
  /\ emits = 0
  /\ call = NoCall

\* One transport object of each class, not yet connected.
NewTransports ==
  /\ transport = [k \in Transports |-> NewTransport]
  /\ built = NotBuilt
  /\ op = NoOp

Init ==
  /\ state = InitialState
  /\ memory_hooks \in BOOLEAN
  /\ has_to_json \in BOOLEAN
  /\ pc = [r \in Runs |-> "idle"]
  /\ input = [r \in Runs |-> NoInput]
  /\ events = [r \in Runs |-> <<>>]
  /\ step = [r \in Runs |-> NoStep]
  /\ result = [r \in Runs |-> NoResult]
  /\ tool_call_id = [r \in Runs |-> <<r, 0>>]
  /\ nsteps = [r \in Runs |-> 0]
  /\ replans = [r \in Runs |-> 0]
  /\ NewEngine
  /\ NewTransports
  /\ wire = NoWire
  /\ tasks = [c \in Tasks |-> NoTask]
  /\ children = [c \in Tasks |-> NoChild]
  /\ current_processes = <<>>
  /\ temp_dir = {}
  /\ detected = NoDetection
  /\ active_connections = <<>>
  /\ handlers = [s \in Sockets |-> NoHandler]

Next == \E r \in Runs : RunStart(r) \/ Resume(r)

\* Runs of one Agent object, one after the other.
Spec == Init /\ [][Next]_vars

\* The consumer keeps iterating a started generator.
FairSpec == Spec /\ \A r \in Runs : WF_vars(Resume(r))

NextOverlapping == \E r \in Runs : RunStartOverlapping(r) \/ Resume(r)

\* An Agent whose memory has the hooks analyze and observe call and whose
\* PlanStep class can serialise steps.
InitOverlapping == Init /\ memory_hooks /\ has_to_json

\* Runs of one Agent object whose generators are resumed in any order.
SpecOverlapping == InitOverlapping /\ [][NextOverlapping]_vars

\* The engine of the server and of the connector: middlewares are
\* registered and events are emitted through it, in any order.
NextEngine ==
  \/ \E kind \in RegisteredKinds : AddMiddleware(kind)
  \/ AddDefaultChain
  \/ \E ev \in EngineEvents : EmitEvent(ev)

SpecEngine == InitOverlapping /\ [][NextEngine]_vars

\* Events are constructed and the operations of the three transports are
\* called, in any order.
NextTransport ==
  \/ \E cls \in DeltaClasses, delta \in Deltas : Build(cls, delta)
  \/ \E k \in Transports : Connect(k) \/ Disconnect(k) \/ SendEvent(k) \/ ReceiveEvent(k)

SpecTransport == InitOverlapping /\ [][NextTransport]_vars

\* Events are encoded and frames are decoded, in any order.
NextWire ==
  \/ \E ev \in WireEvents : Encode(ev)
  \/ \E accept \in Accepts, ev \in WireEvents : AguiEncode(accept, ev)
  \/ \E data \in WireObjects : FromDict(data)
  \/ \E k \in StreamTransports : Receive(k)

SpecWire == InitOverlapping /\ [][NextWire]_vars

\* Calls of execute_step and execute_code run in tasks of one event loop,
\* their children end, time passes, tasks are cancelled and cleanup() is
\* called, in any order.  Every call of execute_code has a code text of
\* its own.
NextExecutor ==
  \/ \E c \in Tasks :
        \/ \E s \in ExecSteps : StartStep(c, s)
        \/ \E runtime \in RuntimeNames, spawn_ok \in BOOLEAN :
              StartCode(c, CodeText(c), runtime, spawn_ok)
        \/ ChildExits(c) \/ ChildDies(c)
        \/ Communicated(c) \/ TimeoutElapses(c) \/ Cancel(c)
        \/ GraceWaitDone(c) \/ GraceTimeout(c)
  \/ Cleanup

SpecExecutor == InitOverlapping /\ [][NextExecutor]_vars

\* Calls of execute_code on one Executor run in tasks of one event loop,
\* with code texts that may be the same; their children end, time passes
\* and tasks are cancelled, in any order.
NextCode ==
  \E c \in Tasks :
     \/ \E code \in Codes, runtime \in RuntimeNames, spawn_ok \in BOOLEAN :
           StartCode(c, code, runtime, spawn_ok)
     \/ ChildExits(c) \/ ChildDies(c)
     \/ Communicated(c) \/ TimeoutElapses(c) \/ Cancel(c)

SpecCode == InitOverlapping /\ [][NextCode]_vars

\* detect_runtime is called with a code text.
NextDetect == \E code \in CodeTexts : DetectRuntime(code)

SpecDetect == InitOverlapping /\ [][NextDetect]_vars

\* Clients connect to the WebSocket endpoint, send frames and go, and the
\* calls of websocket_endpoint are resumed, in any order.
NextServer ==
  \E s \in Sockets :
     \/ Accept(s)
     \/ \E frame \in ReceivedFrames : ReceiveJson(s, frame)
     \/ SendJson(s)

SpecServer == InitOverlapping /\ [][NextServer]_vars

\* ---------------------------------------------------------------- helpers of the properties
Types(es) == [i \in 1..Len(es) |-> es[i].type]

RECURSIVE Repeat(_, _)
Repeat(n, s) == IF n = 0 THEN <<>> ELSE s \o Repeat(n - 1, s)

History == state.execution_history

\* Entries of execution_history whose step belongs to run r.
EntriesOf(r) == { i \in DOMAIN History : History[i].step.id[1] = r }

\* A step of run r raised inside the per-step try.
StepRaised(r) == \E i \in EntriesOf(r) : History[i].result.kind = "exception"

CountType(es, t) == Cardinality({ i \in DOMAIN es : es[i].type = t })

Started(r) == pc[r] # "idle"

\* ---------------------------------------------------------------- C1
SequenceWith(n, cycle) ==
  <<"RUN_STARTED", "STATE_SNAPSHOT", "TEXT_MESSAGE_START">>
  \o Repeat(n, cycle)
  \o <<"TEXT_MESSAGE_END", "RUN_FINISHED">>

ReplanningNeverEnds ==
  \A r \in Runs :
    (~has_to_json /\ memory_hooks /\ Len(input[r].plan) > 0)
      => pc[r] \notin {"message_end", "finished", "errored"}

\* With to_json in place every run stays below the bound on replanning.
ReplansOfTerminatingRuns ==
  \A r \in Runs : has_to_json => replans[r] <= 2 * Len(input[r].plan)

\* ---------------------------------------------------------------- C3
\* C3: a run emits at most one terminal event (RunFinished or RunError), and
\* that event is the last one of its stream.
C3_TerminalIsLast ==
  \A r \in Runs :
    \A i \in DOMAIN events[r] :
      events[r][i].type \in {"RUN_FINISHED", "RUN_ERROR"} => i = Len(events[r])

C3_Witness ==
  /\ \E r \in Runs : pc[r] = "finished" /\ Len(events[r]) > 5
  /\ \E r \in Runs : pc[r] = "errored" /\ Len(events[r]) > 2

\* ---------------------------------------------------------------- C4
\* C4: after every observe, success_rate = (total_tasks - error_count) / total_tasks.
C4_SuccessRate ==
  LET rs == state.reflexive_state
  IN rs.total_tasks > 0 =>
       rs.success_rate = Div(rs.total_tasks - rs.error_count, rs.total_tasks)

\* ---------------------------------------------------------------- C5
FailedResults ==
  { i \in DOMAIN History :
      \/ History[i].result.kind = "exception"
      \/ History[i].result.kind = "ExecutionResult" /\ ~History[i].result.success }

\* C5: a step whose ExecutionResult has success = false is observed as a
\* failure: its history entry has success = false, it is counted in
\* error_count and last_error is set.
C5_FailureResultCounted ==
  /\ \A i \in FailedResults : ~History[i].success
  /\ state.reflexive_state.error_count = Cardinality(FailedResults)
  /\ FailedResults # {} => state.reflexive_state.last_error # "None"

\* ---------------------------------------------------------------- C6
RaisedEntries(r) == { i \in EntriesOf(r) : History[i].result.kind = "exception" }

ErrorTexts(r) ==
  { i \in DOMAIN events[r] :
      /\ events[r][i].type = "TEXT_MESSAGE_CONTENT"
      /\ events[r][i].delta[1] = "Error executing step: " }

\* C6: a run in which a step raised inside the per-step try has no RunError;
\* every such failure was observed (history entry with success = false,
\* counted in error_count) and answered by one TextMessageContent carrying the
\* error text; the run finishes with RunFinished on an empty task_stack.
C6_StepFailureIsNotFatal ==
  \A r \in Runs :
    StepRaised(r) =>
      /\ pc[r] # "errored"
      /\ CountType(events[r], "RUN_ERROR") = 0
      /\ \A i \in RaisedEntries(r) : ~History[i].success
      /\ state.reflexive_state.error_count
           = Cardinality({ i \in DOMAIN History : History[i].result.kind = "exception" })
      /\ Cardinality(ErrorTexts(r))
           = Cardinality(RaisedEntries(r)) - (IF pc[r] = "recovering" THEN 1 ELSE 0)
      /\ \A i \in ErrorTexts(r) : events[r][i].delta[2] = "to_json failed"
      /\ pc[r] = "message_end" => state.task_stack = <<>>
      /\ pc[r] = "finished" =>
           /\ events[r][Len(events[r])].type = "RUN_FINISHED"
           /\ events[r][Len(events[r])].state.task_stack = <<>>

C6_Witness ==
  \E r \in Runs :
    /\ pc[r] = "finished"
    /\ StepRaised(r)
    /\ Cardinality(ErrorTexts(r)) >= 2

\* ---------------------------------------------------------------- C7
Stack == state.task_stack

\* C7: each step is observed at most once and never while it still waits;
\* steps of one plan are run in the order of the plan; the step observed
\* right after a failed step is the first step of its recovery plan; and when
\* a step is taken from the stack, every step still waiting that was created
\* later than it belongs to the same plan (the recovery steps created since
\* have all run, in front of the steps that were pending).
C7_RecoveryRunsFirst ==
  /\ \A i, j \in DOMAIN History :
       History[i].step.id = History[j].step.id => i = j
  /\ \A i, j \in DOMAIN Stack : Stack[i].id = Stack[j].id => i = j
  /\ \A i \in DOMAIN History : \A j \in DOMAIN Stack :
       History[i].step.id # Stack[j].id
  /\ \A i, j \in DOMAIN Stack :
       (i < j /\ Stack[i].origin = Stack[j].origin) => Stack[i].id[2] < Stack[j].id[2]
  /\ \A i, j \in DOMAIN History :
       (i < j /\ History[i].step.origin = History[j].step.origin)
         => History[i].step.id[2] < History[j].step.id[2]
  /\ \A i \in DOMAIN History :
       (History[i].result.kind = "exception" /\ i + 1 \in DOMAIN History)
         => /\ History[i + 1].step.origin = History[i].step.id
            /\ History[i + 1].step.action = "analyze_error"
  /\ \A r \in Runs :
       pc[r] \in {"tool_call_start", "executing", "step_snapshot", "tool_call_end"} =>
         \A j \in DOMAIN Stack :
           Stack[j].id[2] > step[r].id[2] => Stack[j].origin = step[r].origin

\* A finished run in which a step failed while another step was pending, and
\* both its recovery steps and the pending step have run.
C7_Witness ==
  \E r \in Runs :
    /\ pc[r] = "finished"
    /\ \E i, j, k \in EntriesOf(r) :
         /\ i < j /\ j < k
         /\ History[i].result.kind = "exception"
         /\ History[j].step.origin = History[i].step.id
         /\ History[k].step.origin = History[i].step.origin
         /\ History[k].step.id[2] > History[i].step.id[2]

\* ---------------------------------------------------------------- C8
\* The fault a run hits outside the per-step try, "none" when there is none.
OuterFault(inp) ==
  IF ~inp.has_messages THEN "No messages provided for analysis"
  ELSE IF ~memory_hooks THEN "'MemoryManager' object has no attribute 'store_analysis'"
  ELSE IF inp.planner_raises THEN "planner failed"
  ELSE "none"

PastFault(r) ==
  /\ pc[r] \notin {"idle", "run_started", "initial_snapshot"}
  /\ (input[r].has_messages /\ memory_hooks) => pc[r] # "planning"

\* C8: a run that has hit a fault outside the per-step try has emitted exactly
\* one RunError, as its last event, carrying the fault's message; from then on
\* it emits nothing, and the Agent's state changes only when another run acts.
C8_OuterFaultIsOneRunError ==
  /\ [](\A r \in Runs :
         (PastFault(r) /\ OuterFault(input[r]) # "none") =>
           /\ pc[r] = "errored"
           /\ CountType(events[r], "RUN_ERROR") = 1
           /\ events[r][Len(events[r])]
                = [type |-> "RUN_ERROR", message |-> OuterFault(input[r])])
  /\ [][\A r \in Runs :
          pc[r] = "errored" =>
            /\ pc'[r] = "errored"
            /\ events'[r] = events[r]
            /\ (\A q \in Runs \ {r} : pc'[q] = pc[q]) => state' = state]_vars

C8_Witness ==
  /\ \E r \in Runs : pc[r] = "errored" /\ ~input[r].has_messages
  /\ \E r \in Runs : pc[r] = "errored" /\ input[r].planner_raises
                     /\ CountType(events[r], "TEXT_MESSAGE_START") = 1

\* ---------------------------------------------------------------- C9
\* C9: the StateSnapshot right after RunStarted carries a fresh AgentState.
C9_FirstSnapshotIsFresh ==
  \A r \in Runs :
    Len(events[r]) >= 2 =>
      LET snap == events[r][2].snapshot
      IN /\ events[r][2].type = "STATE_SNAPSHOT"
         /\ snap.task_stack = <<>>
         /\ snap.execution_history = <<>>
         /\ snap.reflexive_state.total_tasks = 0
         /\ snap.reflexive_state.error_count = 0
         /\ snap.reflexive_state.success_rate = [num |-> 1, den |-> 1]

\* ---------------------------------------------------------------- C10
InProgress(r) == pc[r] \notin {"idle", "finished", "errored"}

\* C10: while a run is in progress, a step of another run leaves task_stack,
\* execution_history and reflexive_state as they are.
C10_RunsDoNotShareState ==
  [][\A r, q \in Runs :
       (r # q /\ InProgress(q) /\ pc'[r] # pc[r]) =>
         /\ state'.task_stack = state.task_stack
         /\ state'.execution_history = state.execution_history
         /\ state'.reflexive_state = state.reflexive_state]_vars

\* ---------------------------------------------------------------- properties of the engine
Emitted == call.op = "emit_event"
IsStateSnapshot(ev) == ev.cls = "BaseEvent" /\ ev.type = "STATE_SNAPSHOT"
IsStateDelta(ev) == ev.cls = "BaseEvent" /\ ev.type = "STATE_DELTA"
IsMessagesSnapshot(ev) == ev.cls = "BaseEvent" /\ ev.type = "MESSAGES_SNAPSHOT"
EngineNow == Seen(protocol_state, protocol_messages)
KindsOf(mws) == [i \in DOMAIN mws |-> mws[i].kind]

\* C11: the event emit_event returns is the result of calling process_event
\* of every registered middleware exactly once, in the order of
\* registration, each with the output of the one before it.
C11_ChainInRegistrationOrder ==
  (Emitted /\ ~call.raised) =>
     /\ Len(call.log) = call.registered
     /\ \A i \in DOMAIN call.log :
          /\ call.log[i].reg = i
          /\ call.log[i].kind = middlewares[i].kind
          /\ call.log[i].input = IF i = 1 THEN call.event ELSE call.log[i - 1].output
     /\ call.returned = IF call.log = <<>> THEN call.event
                        ELSE call.log[Len(call.log)].output

\* An event came back from two middlewares, the first of which rewrote it.
C11_Witness ==
  /\ Emitted /\ ~call.raised
  /\ Len(call.log) = 2
  /\ call.log[1].output # call.event
  /\ call.log[1].kind # call.log[2].kind

\* Some operation of the patch is invalid on the document the operations
\* before it leave.
InvalidPatch(doc, patch) == ApplyPatch(doc, patch).raised

\* C12: a StateDelta with an invalid operation, also behind valid ones,
\* makes emit_event fail and leaves the engine's state as it was.
C12_InvalidDeltaIsAtomic ==
  (Emitted /\ IsStateDelta(call.event)
     /\ InvalidPatch(call.before.state, call.event.delta)) =>
        /\ call.raised
        /\ call.log = <<>>
        /\ protocol_state = call.before.state

\* The failing operation came after one that would have changed the state.
C12_Witness ==
  /\ Emitted /\ IsStateDelta(call.event) /\ call.raised
  /\ Len(call.event.delta) >= 2
  /\ ~ApplyOp(call.before.state, call.event.delta[1]).raised
  /\ ApplyOp(call.before.state, call.event.delta[1]).doc # call.before.state

\* C13: emit_event makes the state equal to the snapshot of a
\* StateSnapshot, changes it otherwise only for a StateDelta, makes the
\* messages equal to the list of a MessagesSnapshot and leaves them alone
\* for every other event.
C13_FrameOfEmitEvent ==
  Emitted =>
     /\ IsStateSnapshot(call.event) => protocol_state = call.event.snapshot
     /\ ~IsStateSnapshot(call.event) /\ ~IsStateDelta(call.event)
           => protocol_state = call.before.state
     /\ IsMessagesSnapshot(call.event) => protocol_messages = call.event.messages
     /\ ~IsMessagesSnapshot(call.event) => protocol_messages = call.before.messages

\* A snapshot replaced a state that had a key the snapshot does not have.
C13_Witness ==
  /\ Emitted /\ IsStateSnapshot(call.event)
  /\ DOMAIN call.before.state \ DOMAIN call.event.snapshot # {}
  /\ protocol_state = call.event.snapshot

\* The state and messages an event asks for, on an engine that was in before.
Updated(before, ev) ==
  CASE IsStateSnapshot(ev) -> Seen(ev.snapshot, before.messages)
    [] IsStateDelta(ev) -> Seen(ApplyPatch(before.state, ev.delta).doc, before.messages)
    [] IsMessagesSnapshot(ev) -> Seen(before.state, ev.messages)
    [] OTHER -> before

Reconciling(ev) == IsStateSnapshot(ev) \/ IsStateDelta(ev) \/ IsMessagesSnapshot(ev)

\* C14: every middleware called for a StateSnapshot, StateDelta or
\* MessagesSnapshot finds the engine already updated, and the update stays
\* when a middleware rejects the event.
C14_ReconciledBeforeChain ==
  (Emitted /\ Reconciling(call.event)
     /\ ~InvalidPatch(call.before.state, call.event.delta)) =>
        /\ \A i \in DOMAIN call.log :
             call.log[i].seen = Updated(call.before, call.event)
        /\ EngineNow = Updated(call.before, call.event)

\* A middleware rejected an event that had changed the engine's state.
C14_Witness ==
  /\ Emitted /\ Reconciling(call.event) /\ call.raised
  /\ call.log # <<>>
  /\ call.log[Len(call.log)].seen = EngineNow
  /\ EngineNow # call.before

DefaultChain == KindsOf(middlewares) = create_default_middleware_chain

\* C15: with the default chain, the k-th call of emit_event that is
\* accepted returns the event object it was given (the k-th), with the
\* type it came with.
C15_DefaultChainKeepsEvents ==
  (Emitted /\ DefaultChain /\ call.registered = Len(middlewares) /\ ~call.raised) =>
     /\ call.returned.id = call.event.id
     /\ call.event.id = emits
     /\ call.returned.type = call.event.type

\* The default chain accepted a second event and a middleware stamped it.
C15_Witness ==
  /\ Emitted /\ DefaultChain /\ call.registered = Len(middlewares) /\ ~call.raised
  /\ emits = 2
  /\ "streaming" \in call.returned.metadata.stamped

\* ---------------------------------------------------------------- properties of the transports
Called(k, name) == op.transport = k /\ op.name = name

\* C16: send_event of SSETransport raises its receive-only error whatever
\* the event and whether the transport was never connected, is connected
\* or was disconnected; nothing is sent and the transport is left as it was.
C16_SSESendIsReceiveOnly ==
  Called("SSETransport", "send_event") =>
     /\ op.result = "raised"
     /\ op.error = "NotImplementedError: SSE transport is receive-only"
     /\ op.requests = 0
     /\ transport["SSETransport"] = op.before

\* send_event was called on an SSE transport that had been disconnected.
C16_Witness ==
  /\ Called("SSETransport", "send_event")
  /\ op.before.stream = "closed"
  /\ op.event.cls = "ToolCallArgsEvent"

\* C17: send_event of a connected HTTPTransport whose POST the remote
\* answers returns True exactly for the 2xx statuses.
C17_HttpSendSucceedsOn2xx ==
  (Called("HTTPTransport", "send_event") /\ op.before.session = "open"
     /\ op.net = "ok") =>
        /\ op.requests = 1
        /\ op.result = "True" <=> op.status \in 200..299

\* The operations a transport class supports.
Supported(k, name) ==
  /\ ~(k = "SSETransport" /\ name = "send_event")
  /\ ~(k = "HTTPTransport" /\ name = "receive_event")

\* C18: a supported operation of a transport never raises: connect,
\* disconnect and send_event answer True or False, receive_event None or
\* an event, and a failure caught inside gives False or None.
C18_FailuresAreReturned ==
  (op.name # "none" /\ Supported(op.transport, op.name)) =>
     /\ op.result # "raised"
     /\ op.name \in {"connect", "disconnect", "send_event"}
           => op.result \in {"True", "False"}
     /\ op.name = "receive_event" => op.result \in {"None", "event"}
     /\ op.caught => op.result \in {"False", "None"}

\* The network failed under send_event of a connected WebSocket transport.
C18_Witness ==
  /\ Called("WebSocketTransport", "send_event")
  /\ op.before.stream = "open"
  /\ op.net = "fail"
  /\ op.result = "False"

\* ---------------------------------------------------------------- properties of the events
ContentEvents(r) ==
  { i \in DOMAIN events[r] : events[r][i].type = "TEXT_MESSAGE_CONTENT" }

\* C19: a TextMessageContent cannot be constructed with an empty delta,
\* and every TextMessageContent a run yields, for a step's result or for a
\* step's error, has a delta of length greater than 0.
C19_ContentDeltaNotEmpty ==
  /\ \A d \in Deltas :
       StrLen(d) = 0 => Construct("TextMessageContentEvent", d).raised
  /\ \A r \in Runs : \A i \in ContentEvents(r) : StrLen(events[r][i].delta) > 0

\* A run yielded the text of a result and the text of an error.
C19_Witness ==
  \E r \in Runs : \E i, j \in ContentEvents(r) :
     /\ Len(events[r][i].delta) = 1
     /\ Len(events[r][j].delta) = 2

\* C20: a ToolCallArgs cannot be constructed with an empty delta.
C20_EmptyToolCallArgsFails ==
  (built.cls = "ToolCallArgsEvent" /\ StrLen(built.delta) = 0) => built.raised

\* ---------------------------------------------------------------- properties of the wire encoding
Decoding(name) == wire.op = name
WireObject == json_loads(wire.frame.text)

\* C21: from_dict of a wire object whose type is not a member of EventType
\* gives a RawEvent and does not raise.
C21_UnknownTypeDecodesToRaw ==
  (Decoding("from_dict") /\ "type" \in DOMAIN WireObject
     /\ WireObject["type"] \notin EventType) =>
        /\ wire.result = "event"
        /\ wire.decoded.cls = "RawEvent"

\* The frame is in the framing the transport reads.
Framed(k, f) == IF k = "SSETransport" THEN f.prefix = "data: " ELSE f.prefix = ""

\* C22: an encoded event received by a connected SSE or WebSocket transport
\* over a working network, in the framing of that transport, comes out as
\* an event of the class _EVENT_TYPE_MAP names for its type, with the values
\* of the fields of that class as they were.
C22_RoundTrip ==
  (Decoding("receive_event") /\ wire.before.stream = "open" /\ wire.net = "ok"
     /\ Framed(wire.transport, wire.frame)) =>
        /\ wire.result = "event"
        /\ wire.decoded.cls = EVENT_TYPE_MAP[wire.frame.text["type"]]
        /\ wire.decoded.cls = wire.event.cls
        /\ \A f \in VariantFields(wire.event.cls) :
              /\ f \in DOMAIN wire.decoded.fields
              /\ wire.decoded.fields[f] = wire.event.fields[f]

\* C23: the output of an encoder has no field whose value is null, and a
\* field of the event that is None is not in it.
C23_NoNullOnTheWire ==
  Decoding("encode") =>
     /\ \A f \in DOMAIN wire.frame.text : wire.frame.text[f] # JsonNull
     /\ \A f \in DOMAIN wire.event.fields :
           wire.event.fields[f] = PyNone => f \notin DOMAIN wire.frame.text

\* ---------------------------------------------------------------- properties of the process execution
Over(c) == tasks[c].pc \in {"returned", "raised"}
Spawned(c) == children[c].status # "none"
Tracked(p) == \E i \in DOMAIN current_processes : current_processes[i] = p
Occurrences(p) == Cardinality({ i \in DOMAIN current_processes : current_processes[i] = p })

\* C24: a call whose child ran beyond the configured time has, once it is
\* over, a result classified as timeout, and its child is not running.
C24_TimeoutEndsChild ==
  \A c \in Tasks :
     (Over(c) /\ tasks[c].overran) =>
        /\ tasks[c].result.status = "timeout"
        /\ ~Alive(c)

\* C25: when a call that spawned a child is over, a child that had ended
\* when the body was left was sent nothing, and a child that was alive then
\* was sent terminate and waited for, and was sent kill after the wait
\* unless it had ended.
C25_EscalatingCleanup ==
  \A c \in Tasks :
     (Over(c) /\ Spawned(c)) =>
        /\ children[c].left = "exited" => children[c].handled = <<>>
        /\ children[c].left = "alive" =>
              \/ children[c].handled = <<"terminate", "wait">> /\ ~Alive(c)
              \/ children[c].handled = <<"terminate", "wait", "kill">>

C27_NoChildOutlivesItsCall ==
  \A c \in Tasks :
     tasks[c].kind = "execute_step" =>
        /\ Over(c) => ~Alive(c)
        /\ Alive(c) => Tracked(c)

\* C28: a child that cleanup() found running in current_processes is not
\* running once cleanup() has returned.
C28_CleanupEndsTracked ==
  \A p \in Tasks : children[p].cleanup_term => ~Alive(p)

\* C29: an execute_step call raises nothing but the CancelledError of its
\* own cancellation; it returns an ExecutionResult whose success is True
\* only if the script was spawned and ended with returncode 0, and whose
\* error is a non-empty text when success is False.
C29_ExecuteStepReturnsResult ==
  \A c \in Tasks :
     (tasks[c].kind = "execute_step" /\ Over(c)) =>
        /\ tasks[c].result.kind = "raised" => tasks[c].result.error = "CancelledError"
        /\ tasks[c].result.kind \in {"raised", "ExecutionResult"}
        /\ tasks[c].pc = "returned" =>
              /\ tasks[c].result.kind = "ExecutionResult"
              /\ tasks[c].result.success =>
                    /\ before_spawn(tasks[c].step) = "spawn"
                    /\ children[c].status = "exited" /\ children[c].returncode = 0
              /\ ~tasks[c].result.success =>
                    /\ tasks[c].result.error # "None"
                    /\ Len(tasks[c].result.error) > 0
              /\ (Spawned(c) /\ children[c].returncode # 0) => ~tasks[c].result.success

\* A step of an unknown action and a script that ended with returncode 1
\* were executed.
C29_Witness ==
  /\ tasks[1].kind = "execute_step" /\ tasks[1].pc = "returned"
  /\ tasks[1].step.action = "deploy"
  /\ tasks[2].kind = "execute_step" /\ tasks[2].pc = "returned"
  /\ children[2].returncode = 1

\* execute_code was called with a runtime get_runtime_path raises for.
RuntimeMissing(c) ==
  /\ tasks[c].kind = "execute_code"
  /\ get_runtime_path(tasks[c].runtime).raised

C33_RunIdentity ==
  \A r \in Runs :
    /\ Started(r) => events[r] # <<>> /\ events[r][1].type = "RUN_STARTED"
    /\ \A i \in DOMAIN events[r] :
         LET e == events[r][i]
         IN /\ e.type \in {"RUN_STARTED", "RUN_FINISHED"} =>
                 e.thread_id = ThreadId(r) /\ e.run_id = RunId(r)
            /\ e.type = "TEXT_MESSAGE_START" => e.role = "assistant"

C33_Witness ==
  \E r \in Runs :
    /\ r > 1
    /\ pc[r] = "finished"
    /\ events[r][Len(events[r])].type = "RUN_FINISHED"
    /\ CountType(events[r], "TEXT_MESSAGE_START") = 1

\* ---------------------------------------------------------------- C34
\* One step of the agent keeps execution_history as a prefix, adds at most
\* one entry, raises total_tasks by the number of entries added, and the
\* entry it adds is the one of the step a run in progress is at.
HistoryAppendOnly ==
  LET h == state.execution_history
      g == state'.execution_history
      added == Len(g) - Len(h)
  IN /\ added \in {0, 1}
     /\ SubSeq(g, 1, Len(h)) = h
     /\ added = state'.reflexive_state.total_tasks - state.reflexive_state.total_tasks
     /\ added = 1 => \E r \in Runs : InProgress(r) /\ g[Len(g)].step = step[r]

\* A finished run whose plan was one step, none of whose results is a failure.
OneSuccessfulStep(r) ==
  /\ pc[r] = "finished"
  /\ Len(input[r].plan) = 1
  /\ EntriesOf(r) \cap FailedResults = {}

\* C34: execution_history is append-only: every observed step appends exactly
\* one entry, in the order of observation, and no entry is removed, moved or
\* rewritten; the entries added are as many as total_tasks grew; a run of one
\* successful step ends with exactly one new entry, whose success is true.
C34_HistoryAppendOnly ==
  /\ [][HistoryAppendOnly]_vars
  /\ [](\A r \in Runs :
          OneSuccessfulStep(r) =>
            /\ Cardinality(EntriesOf(r)) = 1
            /\ \A i \in EntriesOf(r) : History[i].success)

C34_Witness ==
  /\ Len(History) >= 3
  /\ \E r \in Runs : r > 1 /\ OneSuccessfulStep(r) /\ EntriesOf(r) # {}
  /\ \E i \in DOMAIN History : ~History[i].success

\* ---------------------------------------------------------------- C35
TaskOrder ==
  <<"TOOL_CALL_START", "TOOL_CALL_ARGS", "STATE_SNAPSHOT", "TOOL_CALL_END",
    "TEXT_MESSAGE_CONTENT">>

\* The events of es from the i-th on, five at most, are the head of the
\* order of a task.
InTaskOrder(es, i) ==
  \A k \in 0..4 : i + k <= Len(es) => es[i + k].type = TaskOrder[k + 1]

\* The snapshot at i is the one of the task started at i - 2: its history
\* ends with the entry of that step and its counters include it.
SnapshotOfStep(es, i) ==
  LET snap == es[i].snapshot
      h == snap.execution_history
  IN /\ h # <<>>
     /\ h[Len(h)].step.id = es[i - 2].step
     /\ snap.reflexive_state.total_tasks = Len(h)
     /\ snap.reflexive_state.error_count =
          Cardinality({ j \in DOMAIN h : ~h[j].success })

\* C35: within one task the events come in the order ToolCallStart,
\* ToolCallArgs, StateSnapshot, ToolCallEnd, TextMessageContent, and the
\* StateSnapshot of a step is taken after the step was executed and observed:
\* it holds the step's history entry and the updated reflexive_state.
C35_OrderWithinTask ==
  \A r \in Runs :
    LET es == events[r]
    IN \A i \in DOMAIN es :
         /\ (es[i].type = "TOOL_CALL_START" /\ i < Len(es)
               /\ es[i + 1].type # "TEXT_MESSAGE_CONTENT") => InTaskOrder(es, i)
         /\ es[i].type = "TOOL_CALL_ARGS" =>
              /\ es[i - 1].type = "TOOL_CALL_START"
              /\ es[i - 1].tool_call_id = es[i].tool_call_id
         /\ (es[i].type = "STATE_SNAPSHOT" /\ i > 2) =>
              /\ es[i - 1].type = "TOOL_CALL_ARGS"
              /\ SnapshotOfStep(es, i)
         /\ es[i].type = "TOOL_CALL_END" =>
              /\ es[i - 1].type = "STATE_SNAPSHOT"
              /\ es[i - 2].tool_call_id = es[i].tool_call_id

C35_Witness ==
  \E r \in Runs :
    \E i \in DOMAIN events[r] :
      /\ i + 9 <= Len(events[r])
      /\ events[r][i].type = "TOOL_CALL_START"
      /\ events[r][i + 4].type = "TEXT_MESSAGE_CONTENT"
      /\ events[r][i + 7].type = "STATE_SNAPSHOT"
      /\ Len(events[r][i + 7].snapshot.execution_history) >= 3

\* ---------------------------------------------------------------- C37
\* The ToolCallStart at i has its ToolCallEnd, with the same tool_call_id,
\* before the event at j.
EndedBefore(es, i, j) ==
  \E k \in (i + 1)..(j - 1) :
    es[k].type = "TOOL_CALL_END" /\ es[k].tool_call_id = es[i].tool_call_id

C38_TextMessageEnds ==
  \A r \in Runs :
    LET es == events[r]
    IN \A i, j \in DOMAIN es :
         /\ (/\ i < j
             /\ es[i].type = "TEXT_MESSAGE_START"
             /\ es[j].type \in {"RUN_FINISHED", "RUN_ERROR"})
              => \E k \in (i + 1)..(j - 1) :
                   /\ es[k].type = "TEXT_MESSAGE_END"
                   /\ es[k].message_id = es[i].message_id
         /\ es[i].type = "TEXT_MESSAGE_CONTENT" =>
              /\ \E k \in 1..(i - 1) :
                   /\ es[k].type = "TEXT_MESSAGE_START"
                   /\ es[k].message_id = es[i].message_id
              /\ ~\E k \in 1..(i - 1) :
                   /\ es[k].type = "TEXT_MESSAGE_END"
                   /\ es[k].message_id = es[i].message_id

\* ---------------------------------------------------------------- properties of the streaming buffer
\* ---------------------------------------------------------------- C36
\* The chunks a StreamingMiddleware holds for session s.
ChunksOf(m, s) == IF s \in DOMAIN m.buffer THEN m.buffer[s] ELSE <<>>

\* The i-th middleware was called by the emit_event of this step.
Processed(i) ==
  /\ emits' = emits + 1
  /\ i \in DOMAIN call'.log

\* What one step of the engine does to the buffers of the i-th middleware.
StreamingStep(i) ==
  LET old == middlewares[i]
      new == middlewares'[i]
      ev == call'.log[i].input
      out == call'.log[i].output
  IN IF Processed(i) /\ ev.type = "chat.stream" /\ ev.session_id # NoSession
     THEN /\ ChunksOf(new, ev.session_id) =
               Append(ChunksOf(old, ev.session_id), ev.payload.content)
          /\ \A s \in Sessions \ {ev.session_id} : ChunksOf(new, s) = ChunksOf(old, s)
          /\ out.metadata.streaming.buffer_size = Len(ChunksOf(old, ev.session_id)) + 1
     ELSE new.buffer = old.buffer

\* C36: a StreamingMiddleware keeps one ordered buffer of chunks per session:
\* a chat.stream event with a session_id appends its chunk to the buffer of
\* its session, in arrival order, and is stamped with the number of chunks
\* of that session so far; the buffers of the other sessions stay as they
\* are, and an event without session_id or of another type changes no buffer.
C36_StreamingBuffers ==
  [][\A i \in DOMAIN middlewares :
       middlewares[i].kind = "StreamingMiddleware" => StreamingStep(i)]_vars

C36_Witness ==
  \E i \in DOMAIN middlewares :
    /\ middlewares[i].kind = "StreamingMiddleware"
    /\ ChunksOf(middlewares[i], "s1") = <<"more", "chunk">>
    /\ call.log[i].output.metadata.streaming.buffer_size = 2

\* ---------------------------------------------------------------- properties of the code files
CodeCall(c) == tasks[c].kind = "execute_code"

InFlight(c) == tasks[c].pc = "communicate"

\* The call of task c returns or raises in this step, having created a
\* code file.
LeavesWithFile(c) ==
  /\ CodeCall(c)'
  /\ tasks[c].pc \in {"idle", "communicate"}
  /\ tasks[c].pc' \in {"returned", "raised"}
  /\ tasks[c].code_file' # NoFile

\* ---------------------------------------------------------------- C31
\* C31: when a call of execute_code is over, by success, non-zero exit,
\* timeout or error, the code file it created is removed, and with no call
\* in progress the temporary directory of the runtime holds no code file.
C31_CodeFileRemoved ==
  /\ [][\A c \in Tasks : LeavesWithFile(c) => tasks[c].code_file' \notin temp_dir']_vars
  /\ []((\A c \in Tasks : ~InFlight(c)) => temp_dir = {})

C31_Witness ==
  /\ temp_dir = {}
  /\ \E c, d \in Tasks :
       /\ tasks[c].code_file # NoFile /\ tasks[c].result.status = "timeout"
       /\ tasks[d].code_file # NoFile /\ tasks[d].result.status = "error"
       /\ tasks[d].result.error = "None"

\* ---------------------------------------------------------------- C32
PythonSnippet == <<"print('Python detected')">>
NodeSnippet == <<"console.log('Node detected')", ";">>
BashSnippet == <<"echo 'Bash detected'">>

\* C32: the runtime is detected from the code text: a Python print
\* statement gives python, a JavaScript console.log statement gives node,
\* a bare echo command gives bash.
C32_DetectsSnippets ==
  /\ detected.code = PythonSnippet => detected.runtime = "python"
  /\ detected.code = NodeSnippet => detected.runtime = "node"
  /\ detected.code = BashSnippet => detected.runtime = "bash"

\* ---------------------------------------------------------------- C39
\* C39: calls of execute_code that overlap on one Executor do not
\* interfere through their code files, also when they run the same text:
\* the file of a call is there while its child runs, and no call is left
\* with the error of a code file that is gone.
C39_CodeFilesDoNotInterfere ==
  \A c \in Tasks :
    CodeCall(c) =>
      /\ InFlight(c) => tasks[c].code_file \in temp_dir
      /\ tasks[c].result # Propagates("FileNotFoundError")

\* ---------------------------------------------------------------- C40
Active(s) == \E i \in DOMAIN active_connections : active_connections[i] = s

\* C40: active_connections holds exactly the sockets whose
\* websocket_endpoint call is still running: a socket is removed on every
\* way its call can end, and broadcast never sends to the socket of a call
\* that has ended.
C40_ActiveAreRunning ==
  \A s \in Sockets :
    /\ Active(s) <=> Running(s)
    /\ ~handlers[s].sent_to_ended

====
